---- MODULE Spec2Model ----
(***************************************************************************)
(* Dual-layer mass-spring cloth: topology construction, GPU buffers, the   *)
(* two compute stages of a physics tick, and the buffer reset.             *)
(*                                                                         *)
(* Numbers.  The program computes in 32-bit floats; the model computes in  *)
(* fixed point.  Lengths are integers in units of 1/2000 m (1.5 m = 3000), *)
(* stiffness values and stiffness multipliers are in tenths (0.2 = 2),     *)
(* dampening is in hundredths (0.99 = 99).  Division rounds toward zero    *)
(* (symmetric in the sign, as float rounding is) and square roots round to *)
(* the nearest integer.                                                    *)
(*                                                                         *)
(* Indices.  JavaScript arrays that grow by push() are sequences (element  *)
(* with id k sits at index k + 1); typed arrays / GPU buffers are          *)
(* functions over 0 .. n-1, as the shaders index them.                     *)
(*                                                                         *)
(* Loops.  A loop of the source is a RECURSIVE operator L(state, n): the   *)
(* state after the first n iterations, applied to the state it starts on.  *)
(***************************************************************************)
EXTENDS Integers, Sequences, FiniteSets, TLC

\* ------------------------------------------------------------------------
\* Bounds of the model
\* ------------------------------------------------------------------------

\* grid segments along x (the program ships 100; the model keeps the
\* smallest grid that still has free interior vertices)
CLOTH_NUM_SEGMENTS_X == 2

\* grid segments along y
CLOTH_NUM_SEGMENTS_Y == 2

\* number of physics ticks explored with whole-stage dispatches
MaxTicks == 3

\* number of physics ticks explored with task-by-task dispatches
MaxTaskTicks == 2

\* number of times setupCloth runs (the first build included)
MaxBuilds == 2

\* number of render() calls
MaxFrames == 2

\* largest segment count of the configurations given to the builder on
\* their own (the smallest is -1)
MaxConfigSegments == 2

\* ------------------------------------------------------------------------
\* Program constants (fixed point, see the header)
\* ------------------------------------------------------------------------

CLOTH_WIDTH == 3000

CLOTH_HEIGHT == 3000

SPHERE_RADIUS == 240

CLOTH_THICKNESS == 6

Z_SPRING_STIFFNESS == 8

DEFAULT_IN_PLANE_STIFFNESS == 2

\* SPRING_BREAK_THRESHOLD = 1.9, in tenths
SPRING_BREAK_THRESHOLD == 19

SPRING_BREAK_ENABLED == TRUE

\* threshold used when breaking is disabled (999999, in tenths)
BREAK_DISABLED_THRESHOLD == 9999990

\* the floor of a spring's length: 0.000001 in the source, the smallest
\* positive length in fixed point
EPSILON == 1

\* 9.81 * 0.024 m, in length units (0.23544 * 2000, rounded)
GRAVITY_TOTAL == 471

\* dampening = uniform(0.99)
DEFAULT_DAMPENING == 99

STEPS_PER_SECOND == 360

\* time is counted in 1/3600 s
TIME_UNITS_PER_SECOND == 3600

\* MAX_DELTA_TIME = 1 / 60 s
MAX_DELTA_TIME == TIME_UNITS_PER_SECOND \div 60

\* MOUSE_CYLINDER_MAX_HEIGHT = 0.8
MOUSE_CYLINDER_MAX_HEIGHT == 1600

\* MOUSE_DEPTH_SPEED = 0.003
MOUSE_DEPTH_SPEED == 6

MOUSE_CYLINDER_RADIUS == ((CLOTH_WIDTH \div CLOTH_NUM_SEGMENTS_X) * 3) \div 2

\* ------------------------------------------------------------------------
\* Fixed-point arithmetic and vectors
\* ------------------------------------------------------------------------

Max(a, b) == IF a >= b THEN a ELSE b

Min(a, b) == IF a <= b THEN a ELSE b

\* division rounding toward zero
Div(a, b) == IF a >= 0 THEN a \div b ELSE -((-a) \div b)

RECURSIVE SqrtSearch(_, _, _)
\* largest r in lo..hi with r * r <= n
SqrtSearch(n, lo, hi) ==
  IF lo >= hi THEN lo
  ELSE LET mid == (lo + hi + 1) \div 2
       IN IF mid * mid <= n THEN SqrtSearch(n, mid, hi)
                            ELSE SqrtSearch(n, lo, mid - 1)

\* square root rounded to the nearest integer
Sqrt(n) ==
  LET r == SqrtSearch(n, 0, 46339)
  IN IF n - r * r > r THEN r + 1 ELSE r

ZeroVec == <<0, 0, 0>>

VAdd(a, b) == <<a[1] + b[1], a[2] + b[2], a[3] + b[3]>>

VSub(a, b) == <<a[1] - b[1], a[2] - b[2], a[3] - b[3]>>

VNeg(a) == <<-a[1], -a[2], -a[3]>>

\* v * num / den, component-wise
VScale(v, num, den) ==
  <<Div(v[1] * num, den), Div(v[2] * num, den), Div(v[3] * num, den)>>

VLength(v) == Sqrt(v[1] * v[1] + v[2] * v[2] + v[3] * v[3])

\* normalize(v) * m; the unit vector is kept in thousandths
NormalizeMul(v, m) ==
  LET len == VLength(v)
  IN IF len = 0 THEN ZeroVec
     ELSE <<Div(Div(v[1] * 1000, len) * m, 1000),
            Div(Div(v[2] * 1000, len) * m, 1000),
            Div(Div(v[3] * 1000, len) * m, 1000)>>

\* Op applied to value, value being computed first (arguments of an
\* operator are otherwise evaluated where they are used, however deep)
ApplyTo(value, Op(_)) == CHOOSE r \in {Op(v) : v \in {value}} : TRUE

\* ------------------------------------------------------------------------
\* Topology builder (verlet/geometry)
\* ------------------------------------------------------------------------

\* the module-level arrays before any build
EmptyGeometry ==
  [vertices |-> <<>>, springs |-> <<>>, columns |-> <<>>, columnsBottom |-> <<>>]

\* a variant that starts from the arrays as they are
KeepGeometry(g) == g

\* how setupVerletGeometry starts: all four arrays truncated to length 0
ClearGeometry(g) == EmptyGeometry

\* a variant that numbers the vertices from 1
addVerletVertexFromOne(g, x, y, z, isFixed, layer) ==
  LET id == Len(g.vertices) + 1
      vertex == [id |-> id, position |-> <<x, y, z>>, isFixed |-> isFixed,
                 springIds |-> <<>>, layer |-> layer]
  IN [g EXCEPT !.vertices = Append(@, vertex)]

\* const id = verletVertices.length: the id is the index the vertex gets
addVerletVertex(g, x, y, z, isFixed, layer) ==
  LET id == Len(g.vertices)
      vertex == [id |-> id, position |-> <<x, y, z>>, isFixed |-> isFixed,
                 springIds |-> <<>>, layer |-> layer]
  IN [g EXCEPT !.vertices = Append(@, vertex)]

\* a variant that records the spring at its first endpoint only
addVerletSpringOneSided(g, vertex0, vertex1, stiffness, isZSpring) ==
  LET id == Len(g.springs)
      spring == [id |-> id, vertex0 |-> vertex0, vertex1 |-> vertex1,
                 stiffness |-> stiffness, isZSpring |-> isZSpring]
      ref == [id |-> id, isZSpring |-> isZSpring]
      v1 == [g.vertices EXCEPT ![vertex0 + 1].springIds = Append(@, ref)]
  IN [g EXCEPT !.vertices = v1, !.springs = Append(@, spring)]

addVerletSpring(g, vertex0, vertex1, stiffness, isZSpring) ==
  LET id == Len(g.springs)
      spring == [id |-> id, vertex0 |-> vertex0, vertex1 |-> vertex1,
                 stiffness |-> stiffness, isZSpring |-> isZSpring]
      ref == [id |-> id, isZSpring |-> isZSpring]
      v1 == [g.vertices EXCEPT ![vertex0 + 1].springIds = Append(@, ref)]
      v2 == [v1 EXCEPT ![vertex1 + 1].springIds = Append(@, ref)]
  IN [g EXCEPT !.vertices = v2, !.springs = Append(@, spring)]

\* number of grid points of one layer
GridSize == (CLOTH_NUM_SEGMENTS_X + 1) * (CLOTH_NUM_SEGMENTS_Y + 1)

\* the k-th grid point in loop order (x outer, y inner)
GridX(k) == k \div (CLOTH_NUM_SEGMENTS_Y + 1)

GridY(k) == k % (CLOTH_NUM_SEGMENTS_Y + 1)

\* one iteration of the vertex loops of a layer: grid point k
createLayerVertex(g, layer, k) ==
  LET x == GridX(k)
      y == GridY(k)
      posX == x * (CLOTH_WIDTH \div CLOTH_NUM_SEGMENTS_X) - CLOTH_WIDTH \div 2
      posZ == y * (CLOTH_HEIGHT \div CLOTH_NUM_SEGMENTS_Y) - CLOTH_HEIGHT \div 2
      halfThickness == CLOTH_THICKNESS \div 2
      posY == IF layer = "top" THEN halfThickness ELSE -halfThickness
      isFixed == x = 0 \/ x = CLOTH_NUM_SEGMENTS_X
                 \/ y = 0 \/ y = CLOTH_NUM_SEGMENTS_Y
      id == Len(g.vertices)
      g1 == addVerletVertex(g, posX, posY, posZ, isFixed, layer)
      field == IF layer = "top" THEN "columns" ELSE "columnsBottom"
      cols == g1[field]
      cols1 == IF y = 0 THEN Append(cols, <<id>>)
               ELSE [cols EXCEPT ![Len(cols)] = Append(@, id)]
  IN [g1 EXCEPT ![field] = cols1]

RECURSIVE createLayerVertices(_, _, _)
\* the vertex loops of one layer, first n grid points
createLayerVertices(g, layer, n) ==
  IF n = 0 THEN g
  ELSE LET Iteration(done) == createLayerVertex(done, layer, n - 1)
       IN ApplyTo(createLayerVertices(g, layer, n - 1), Iteration)

\* one iteration of the loops of createLayerSprings: grid point k of the
\* layer whose vertex ids are in columns
createSpringsAt(g, columns, k) ==
  LET x == GridX(k)
      y == GridY(k)
      vertex0 == columns[x + 1][y + 1]
      g1 == IF x > 0
            THEN addVerletSpring(g, vertex0, columns[x][y + 1],
                                 DEFAULT_IN_PLANE_STIFFNESS, FALSE)
            ELSE g
      g2 == IF y > 0
            THEN addVerletSpring(g1, vertex0, columns[x + 1][y],
                                 DEFAULT_IN_PLANE_STIFFNESS, FALSE)
            ELSE g1
      g3 == IF x > 0 /\ y > 0
            THEN addVerletSpring(g2, vertex0, columns[x][y],
                                 DEFAULT_IN_PLANE_STIFFNESS, FALSE)
            ELSE g2
      g4 == IF x > 0 /\ y < CLOTH_NUM_SEGMENTS_Y
            THEN addVerletSpring(g3, vertex0, columns[x][y + 2],
                                 DEFAULT_IN_PLANE_STIFFNESS, FALSE)
            ELSE g3
  IN g4

RECURSIVE createLayerSpringsUpTo(_, _, _)
\* the spring loops of one layer, first n grid points
createLayerSpringsUpTo(g, columns, n) ==
  IF n = 0 THEN g
  ELSE LET Iteration(done) == createSpringsAt(done, columns, n - 1)
       IN ApplyTo(createLayerSpringsUpTo(g, columns, n - 1), Iteration)

createLayerSprings(g, columns) == createLayerSpringsUpTo(g, columns, GridSize)

RECURSIVE createZSprings(_, _)
\* the Z-spring loops, first n grid points
createZSprings(g, n) ==
  IF n = 0 THEN g
  ELSE LET Iteration(done) ==
             addVerletSpring(done,
                             done.columns[GridX(n - 1) + 1][GridY(n - 1) + 1],
                             done.columnsBottom[GridX(n - 1) + 1][GridY(n - 1) + 1],
                             Z_SPRING_STIFFNESS, TRUE)
       IN ApplyTo(createZSprings(g, n - 1), Iteration)

\* setupVerletGeometry run on the module arrays as they are (prev)
setupVerletGeometry(prev) ==
  LET TopVertices(g) == createLayerVertices(g, "top", GridSize)
      BottomVertices(g) == createLayerVertices(g, "bottom", GridSize)
      TopSprings(g) == createLayerSprings(g, g.columns)
      BottomSprings(g) == createLayerSprings(g, g.columnsBottom)
      ZSprings(g) == createZSprings(g, GridSize)
  IN ApplyTo(ApplyTo(ApplyTo(ApplyTo(ApplyTo(ClearGeometry(prev), TopVertices),
                                     BottomVertices),
                             TopSprings),
                     BottomSprings),
             ZSprings)

\* ------------------------------------------------------------------------
\* Buffer setup (verlet/buffers)
\* ------------------------------------------------------------------------

RECURSIVE vertexParamsLoop(_, _)
\* the loop of setupVerletVertexBuffers over the first n vertices: params
\* holds the vertexParamsArray entries written so far, list is the
\* springListArray
vertexParamsLoop(vertices, n) ==
  IF n = 0 THEN [params |-> <<>>, list |-> <<>>]
  ELSE LET vertex == vertices[n]
           allSpringIds == [k \in 1..Len(vertex.springIds) |-> vertex.springIds[k].id]
           fixedFlag == IF vertex.isFixed THEN 1 ELSE 0
           Iteration(done) ==
             IF ~vertex.isFixed
             THEN [params |-> Append(done.params,
                                     <<fixedFlag, Len(allSpringIds), Len(done.list)>>),
                   list |-> done.list \o allSpringIds]
             ELSE [params |-> Append(done.params, <<fixedFlag, 0, 0>>),
                   list |-> done.list]
       IN ApplyTo(vertexParamsLoop(vertices, n - 1), Iteration)

\* new Uint32Array(seq): a typed array indexed from 0
TypedArray(seq) == [i \in 0..(Len(seq) - 1) |-> seq[i + 1]]

setupVerletVertexBuffers(g) ==
  LET vertexCount == Len(g.vertices)
      ids == 0..(vertexCount - 1)
      loop == vertexParamsLoop(g.vertices, vertexCount)
  IN [vertexPositionBuffer |-> [i \in ids |-> g.vertices[i + 1].position],
      vertexForceBuffer |-> [i \in ids |-> ZeroVec],
      vertexParamsBuffer |-> TypedArray(loop.params),
      springListBuffer |-> TypedArray(IF Len(loop.list) > 0 THEN loop.list ELSE <<0>>),
      vertexBrokenBuffer |-> [i \in ids |-> 0]]

\* vertex0.position.distanceTo(vertex1.position)
distanceTo(a, b) == VLength(VSub(a, b))

\* springForceBuffer is allocated with 3 * springCount zeroed elements; the
\* shaders only ever index the first springCount, which are the ones kept
setupVerletSpringBuffers(g) ==
  LET springCount == Len(g.springs)
      ids == 0..(springCount - 1)
  IN IF springCount > 0
     THEN [springVertexIdBuffer |->
             [i \in ids |-> <<g.springs[i + 1].vertex0, g.springs[i + 1].vertex1>>],
           springRestLengthBuffer |->
             [i \in ids |-> distanceTo(g.vertices[g.springs[i + 1].vertex0 + 1].position,
                                       g.vertices[g.springs[i + 1].vertex1 + 1].position)],
           springStiffnessBuffer |-> [i \in ids |-> g.springs[i + 1].stiffness],
           springTypeBuffer |-> [i \in ids |-> IF g.springs[i + 1].isZSpring THEN 1 ELSE 0],
           springForceBuffer |-> [i \in ids |-> ZeroVec]]
     ELSE [springVertexIdBuffer |-> [i \in {0} |-> <<0, 0>>],
           springRestLengthBuffer |-> [i \in {0} |-> 2000],
           springStiffnessBuffer |-> [i \in {0} |-> DEFAULT_IN_PLANE_STIFFNESS],
           springTypeBuffer |-> [i \in {0} |-> 0],
           springForceBuffer |-> [i \in {0} |-> ZeroVec]]

\* ------------------------------------------------------------------------
\* Uniforms
\* ------------------------------------------------------------------------

\* the uniform values after setup: dampening 0.99, probe at the origin and
\* enabled; the first frame of the default 'ball' mode sets the sphere
\* radius and cylinder height 0; both stiffness multipliers at 1.0
setupUniforms ==
  [dampening |-> DEFAULT_DAMPENING,
   spherePosition |-> ZeroVec,
   sphere |-> 1,
   stiffness |-> 2,
   zSpringStiffness |-> 10,
   inPlaneStiffness |-> 10,
   sphereRadius |-> SPHERE_RADIUS,
   cylinderHeight |-> 0]

\* the control inputs explored: what render() and the settings panel can
\* write into the uniforms between two ticks
UniformPresets ==
  { setupUniforms,
    \* 'ball' mode, the sphere dipping into the cloth
    [setupUniforms EXCEPT !.spherePosition = <<0, 200, 0>>],
    \* no active interaction: collision multiplier 0
    [setupUniforms EXCEPT !.sphere = 0, !.spherePosition = <<300, 0, 0>>,
                          !.sphereRadius = MOUSE_CYLINDER_RADIUS],
    \* 'mouse' mode right after the press: depth 0, so pure-sphere mode
    \* with the cylinder radius
    [setupUniforms EXCEPT !.spherePosition = <<300, 0, 0>>,
                          !.sphereRadius = MOUSE_CYLINDER_RADIUS],
    \* 'mouse' mode with the cylinder extended, stiffer in-plane springs
    [setupUniforms EXCEPT !.spherePosition = <<300, 0, 0>>,
                          !.sphereRadius = MOUSE_CYLINDER_RADIUS,
                          !.cylinderHeight = 600,
                          !.inPlaneStiffness = 30],
    \* interaction released, heavy dampening, stiff in-plane springs,
    \* Z-springs switched off
    [setupUniforms EXCEPT !.sphere = 0, !.dampening = 10,
                          !.stiffness = 5,
                          !.inPlaneStiffness = 30,
                          !.zSpringStiffness = 0] }

\* the control inputs explored task by task
TaskUniformPresets ==
  { [setupUniforms EXCEPT !.spherePosition = <<300, 0, 0>>,
                          !.sphereRadius = MOUSE_CYLINDER_RADIUS],
    [setupUniforms EXCEPT !.sphere = 0, !.dampening = 10,
                          !.stiffness = 5,
                          !.inPlaneStiffness = 30,
                          !.zSpringStiffness = 0] }

\* ------------------------------------------------------------------------
\* State
\* ------------------------------------------------------------------------

VARIABLES
  \* verlet/geometry module arrays
  verletVertices, verletSprings, verletVertexColumns, verletVertexColumnsBottom,
  \* verlet/buffers GPU buffers
  vertexPositionBuffer, vertexForceBuffer, vertexParamsBuffer, vertexBrokenBuffer,
  springVertexIdBuffer, springRestLengthBuffer, springStiffnessBuffer,
  springTypeBuffer, springForceBuffer, springListBuffer,
  \* the uniform values read by the shaders
  uniforms,
  \* GPU queue: which dispatch is in flight, and its tasks still to run
  stage, springPending, vertexPending,
  \* number of spring-stage / vertex-stage dispatches submitted so far
  springDispatches, vertexDispatches,
  \* observation: for each spring, the tick whose spring stage last stored
  \* its force
  springEpoch,
  \* observation: the mutable buffers as they were when the dispatch in
  \* flight was submitted
  dispatchSnapshot,
  \* observation: number of resetSimulationBuffers calls in a row (0, 1, 2+)
  resetStreak,
  \* observation: the springs the last reset found with stiffness 0
  repaired,
  \* observation: number of setupCloth runs so far
  builds,
  \* render(): the time accumulated and not yet simulated
  timeSinceLastStep,
  \* observation: iterations of the catch-up loop run by the current frame
  frameTicks,
  \* observation: number of render() calls so far
  frames,
  \* observation: what clock.getDelta() returned to the current frame
  clockDelta,
  \* render(): the simulated time
  timestamp,
  \* a shader function applied on its own: its inputs and its result
  sample,
  \* main: 'ball', 'mouse' or 'tablet'
  interactionMode,
  \* main: mouseState (isPressed, depth, position, targetPosition)
  mouseState,
  \* main: penState (isPressed, pressure in tenths, position,
  \* targetPosition)
  penState,
  \* the orbit controls' enabled flag
  controlsEnabled,
  \* observation: resetSimulationBuffers has run while a render() call was
  \* between its first and its last statement
  resetInFrame

geometryVars ==
  <<verletVertices, verletSprings, verletVertexColumns, verletVertexColumnsBottom>>

topologyBufferVars ==
  <<vertexParamsBuffer, springVertexIdBuffer, springRestLengthBuffer,
    springTypeBuffer, springListBuffer>>

simBufferVars ==
  <<vertexPositionBuffer, vertexForceBuffer, vertexBrokenBuffer,
    springStiffnessBuffer, springForceBuffer>>

queueVars == <<stage, springPending, vertexPending, springDispatches, vertexDispatches>>

observationVars == <<springEpoch, dispatchSnapshot, resetStreak, repaired, builds>>

clockVars == <<timeSinceLastStep, frameTicks, frames, clockDelta, timestamp>>

inputVars == <<interactionMode, mouseState, penState, controlsEnabled>>

vars == <<geometryVars, topologyBufferVars, simBufferVars, uniforms, queueVars,
          observationVars, clockVars, sample, inputVars, resetInFrame>>

\* the buffers the shaders and the reset write, as one record
Buffers ==
  [position |-> vertexPositionBuffer,
   force |-> vertexForceBuffer,
   broken |-> vertexBrokenBuffer,
   stiffness |-> springStiffnessBuffer,
   springForce |-> springForceBuffer]

\* the module arrays as the record the builder works on
Geometry ==
  [vertices |-> verletVertices, springs |-> verletSprings,
   columns |-> verletVertexColumns, columnsBottom |-> verletVertexColumnsBottom]

getVertexCount == Len(verletVertices)

getSpringCount == Len(verletSprings)

\* ------------------------------------------------------------------------
\* Spring Forces compute shader: one invocation
\* ------------------------------------------------------------------------

\* stretchRatio > float(enabled ? SPRING_BREAK_THRESHOLD : 999999), with
\* stretchRatio = dist / restLength and enabled the build's
\* SPRING_BREAK_ENABLED
stretchBreaksWhen(enabled, dist, restLength) ==
  dist * 10 > (IF enabled THEN SPRING_BREAK_THRESHOLD
                          ELSE BREAK_DISABLED_THRESHOLD) * restLength

\* the stretch test of the build as configured
stretchBreaks(dist, restLength) ==
  stretchBreaksWhen(SPRING_BREAK_ENABLED, dist, restLength)

\* a variant that re-arms a spring found unstretched
storedStiffnessRearmed(stored, breaks) ==
  IF breaks THEN 0 ELSE Max(stored, DEFAULT_IN_PLANE_STIFFNESS)

\* what the shader stores into springStiffnessBuffer[i]; stored is the
\* value it read, breaks the outcome of the stretch test
storedStiffness(stored, breaks) == IF breaks THEN 0 ELSE stored

\* a variant that records which spring broke
brokenMarkSpringId(instanceIndex) == instanceIndex + 1

\* the value invocation instanceIndex assigns to the broken indicator of
\* both endpoints when its spring breaks: uint(1)
brokenMark(instanceIndex) == 1

\* (dist - restLength) * stiffness * delta * 0.5 / dist, stiffness being
\* stored stiffness (tenths) times multiplier (tenths)
hookeForce(dist, restLength, stiffness, delta) ==
  LET pull == (dist - restLength) * stiffness
  IN <<Div(pull * Div(delta[1] * 1000, dist), 200000),
       Div(pull * Div(delta[2] * 1000, dist), 200000),
       Div(pull * Div(delta[3] * 1000, dist), 200000)>>

\* a variant that marks the first endpoint only
markBrokenFirstEndpoint(broken, vertexIds, instanceIndex) ==
  [broken EXCEPT ![vertexIds[1]] = brokenMark(instanceIndex)]

\* a variant that marks every vertex of the cloth
markBrokenEverywhere(broken, vertexIds, instanceIndex) ==
  [v \in DOMAIN broken |-> brokenMark(instanceIndex)]

\* vertexBrokenBuffer.element(vertexIds.x).assign(uint(1)) and the same for
\* vertexIds.y: the two writes of a breaking spring to the indicators
markBroken(broken, vertexIds, instanceIndex) ==
  [[broken EXCEPT ![vertexIds[1]] = brokenMark(instanceIndex)]
     EXCEPT ![vertexIds[2]] = brokenMark(instanceIndex)]

\* a variant that applies Hooke's law with the stiffness read before the
\* stretch test
springOutcomePreBreak(restLength, baseStiffness, stiffnessMultiplier, vertex0Position, vertex1Position) ==
  LET delta == VSub(vertex1Position, vertex0Position)
      dist == Max(VLength(delta), EPSILON)
  IN [breaks |-> stretchBreaks(dist, restLength),
      force |-> hookeForce(dist, restLength, baseStiffness * stiffnessMultiplier,
                           delta)]

\* what an invocation of computeSpringForces computes from the values it
\* read: whether its spring breaks, and the force it stores
springOutcome(restLength, baseStiffness, stiffnessMultiplier, vertex0Position, vertex1Position) ==
  LET delta == VSub(vertex1Position, vertex0Position)
      dist == Max(VLength(delta), EPSILON)
      breaks == stretchBreaks(dist, restLength)
      stiffness == IF breaks THEN 0 ELSE baseStiffness * stiffnessMultiplier
  IN [breaks |-> breaks,
      force |-> hookeForce(dist, restLength, stiffness, delta)]

\* a variant that takes a spring with a marked endpoint for broken
stiffnessUnlessMarked(B, instanceIndex) ==
  IF \E k \in 1..2 : B.broken[springVertexIdBuffer[instanceIndex][k]] # 0
  THEN 0 ELSE B.stiffness[instanceIndex]

\* const baseStiffness = springStiffnessBuffer.element(instanceIndex)
readStiffness(B, instanceIndex) == B.stiffness[instanceIndex]

\* invocation instanceIndex of computeSpringForces on buffers B, reading
\* the uniform values U
springTaskWith(U, B, instanceIndex) ==
  IF instanceIndex >= getSpringCount THEN B
  ELSE
    LET vertexIds == springVertexIdBuffer[instanceIndex]
        restLength == springRestLengthBuffer[instanceIndex]
        baseStiffness == readStiffness(B, instanceIndex)
        springType == springTypeBuffer[instanceIndex]
        stiffnessMultiplier == IF springType = 1 THEN U.zSpringStiffness
                                                 ELSE U.inPlaneStiffness
        vertex0Position == B.position[vertexIds[1]]
        vertex1Position == B.position[vertexIds[2]]
        outcome == springOutcome(restLength, baseStiffness, stiffnessMultiplier,
                                 vertex0Position, vertex1Position)
        breaks == outcome.breaks
        force == outcome.force
        broken2 == IF breaks THEN markBroken(B.broken, vertexIds, instanceIndex)
                             ELSE B.broken
    IN [B EXCEPT !.stiffness[instanceIndex] = storedStiffness(baseStiffness, breaks),
                 !.broken = broken2,
                 !.springForce[instanceIndex] = force]

\* invocation instanceIndex of computeSpringForces on buffers B
springTask(B, instanceIndex) == springTaskWith(uniforms, B, instanceIndex)

\* ------------------------------------------------------------------------
\* Vertex Forces compute shader: one invocation
\* ------------------------------------------------------------------------

RECURSIVE accumulateSpringForcesUnsigned(_, _, _, _, _)
\* a variant that adds every stored spring force as it is
accumulateSpringForcesUnsigned(B, instanceIndex, force, ptrStart, ptrEnd) ==
  IF ptrEnd <= ptrStart THEN force
  ELSE LET i == ptrEnd - 1
           before == accumulateSpringForcesUnsigned(B, instanceIndex, force, ptrStart, i)
       IN VAdd(before, B.springForce[springListBuffer[i]])

\* a variant with factor 1.0 for both endpoints
unsignedSpringForce(springForce, firstEndpoint, instanceIndex) == springForce

\* springForce.mul(factor): factor 1.0 for the spring's first endpoint,
\* -1.0 for its second
signedSpringForce(springForce, firstEndpoint, instanceIndex) ==
  IF firstEndpoint = instanceIndex THEN springForce ELSE VNeg(springForce)

RECURSIVE accumulateSpringForces(_, _, _, _, _)
\* the Loop over the adjacency slice: iterations ptrStart .. ptrEnd - 1,
\* starting from force
accumulateSpringForces(B, instanceIndex, force, ptrStart, ptrEnd) ==
  IF ptrEnd <= ptrStart THEN force
  ELSE LET i == ptrEnd - 1
           before == accumulateSpringForces(B, instanceIndex, force, ptrStart, i)
           springId == springListBuffer[i]
           springForce == B.springForce[springId]
           springVertexIds == springVertexIdBuffer[springId]
           signed == signedSpringForce(springForce, springVertexIds[1], instanceIndex)
       IN VAdd(before, signed)

\* cylinderCollision: the tentative position is between the bottom and the
\* top of an extended cylinder and closer to its axis than the radius
cylinderCollision(newPos, spherePosition, sphereRadius, cylinderHeight) ==
  LET cylinderTop == spherePosition[2]
      cylinderBottom == cylinderTop - cylinderHeight
      deltaXZ == <<newPos[1] - spherePosition[1], 0, newPos[3] - spherePosition[3]>>
      distXZ == VLength(deltaXZ)
      withinHeight == newPos[2] <= cylinderTop /\ newPos[2] >= cylinderBottom
      cylinderPenetration == sphereRadius - distXZ
  IN withinHeight /\ cylinderPenetration > 0 /\ cylinderHeight > 0

\* pushDir.mul(cylinderPenetration): horizontally away from the axis
cylinderResponse(newPos, spherePosition, sphereRadius) ==
  LET deltaXZ == <<newPos[1] - spherePosition[1], 0, newPos[3] - spherePosition[3]>>
  IN NormalizeMul(deltaXZ, sphereRadius - VLength(deltaXZ))

\* a variant of the cap test without the height comparison
sphereCollisionAnyHeight(newPos, spherePosition, sphereRadius, cylinderHeight) ==
  LET cylinderBottom == spherePosition[2] - cylinderHeight
      deltaSphere == VSub(newPos, <<spherePosition[1], cylinderBottom, spherePosition[3]>>)
  IN sphereRadius - VLength(deltaSphere) > 0

\* sphereCollision: the tentative position is below the bottom of the
\* cylinder and closer to the centre of the bottom cap than the radius
sphereCollision(newPos, spherePosition, sphereRadius, cylinderHeight) ==
  LET cylinderBottom == spherePosition[2] - cylinderHeight
      deltaSphere == VSub(newPos, <<spherePosition[1], cylinderBottom, spherePosition[3]>>)
      spherePenetration == sphereRadius - VLength(deltaSphere)
  IN spherePenetration > 0 /\ newPos[2] < cylinderBottom

\* deltaSphere.normalize().mul(spherePenetration): away from the centre
\* of the bottom cap
capResponse(newPos, spherePosition, sphereRadius, cylinderHeight) ==
  LET cylinderBottom == spherePosition[2] - cylinderHeight
      deltaSphere == VSub(newPos, <<spherePosition[1], cylinderBottom, spherePosition[3]>>)
  IN NormalizeMul(deltaSphere, sphereRadius - VLength(deltaSphere))

\* pureSphereCollision: the probe is a sphere
pureSphereCollision(cylinderHeight) == cylinderHeight <= 0

\* a variant of the sphere response without .max(0)
pureSphereResponseUnclamped(newPos, spherePosition, sphereRadius) ==
  LET deltaPureSphere == VSub(newPos, spherePosition)
  IN NormalizeMul(deltaPureSphere, sphereRadius - VLength(deltaPureSphere))

\* deltaPureSphere.normalize().mul(purePenetration), purePenetration being
\* radius minus distance, at least 0
pureSphereResponse(newPos, spherePosition, sphereRadius) ==
  LET deltaPureSphere == VSub(newPos, spherePosition)
      distPureSphere == VLength(deltaPureSphere)
  IN NormalizeMul(deltaPureSphere, Max(sphereRadius - distPureSphere, 0))

\* the collision response for tentative position newPos: the three If
\* blocks in program order, each assigning collisionForce
collisionForce(newPos, spherePosition, sphereRadius, cylinderHeight) ==
  LET c1 == IF cylinderCollision(newPos, spherePosition, sphereRadius, cylinderHeight)
            THEN cylinderResponse(newPos, spherePosition, sphereRadius)
            ELSE ZeroVec
      c2 == IF sphereCollision(newPos, spherePosition, sphereRadius, cylinderHeight)
                /\ cylinderHeight > 0
            THEN capResponse(newPos, spherePosition, sphereRadius, cylinderHeight)
            ELSE c1
      c3 == IF pureSphereCollision(cylinderHeight)
            THEN pureSphereResponse(newPos, spherePosition, sphereRadius)
            ELSE c2
  IN c3

\* a variant without the early return
skipsNoVertex(isFixed) == FALSE

\* the early return of computeVertexForces for immovable vertices
skipsVertex(isFixed) == isFixed # 0

\* a variant that starts every tick from a zero accumulator
preCollisionForceFresh(U, B, instanceIndex) ==
  LET params == vertexParamsBuffer[instanceIndex]
      ptrStart == params[3]
      ptrEnd == ptrStart + params[2]
      sprung == accumulateSpringForces(B, instanceIndex, ZeroVec, ptrStart, ptrEnd)
      gravity == GRAVITY_TOTAL \div getVertexCount
  IN <<sprung[1], sprung[2] - gravity, sprung[3]>>

\* the accumulator of vertex instanceIndex before the collision code:
\* dampened, spring forces added, gravity subtracted
preCollisionForce(U, B, instanceIndex) ==
  LET params == vertexParamsBuffer[instanceIndex]
      numSprings == params[2]
      springPointer == params[3]
      damped == VScale(B.force[instanceIndex], U.dampening, 100)
      ptrStart == springPointer
      ptrEnd == ptrStart + numSprings
      sprung == accumulateSpringForces(B, instanceIndex, damped, ptrStart, ptrEnd)
      gravity == GRAVITY_TOTAL \div getVertexCount
  IN <<sprung[1], sprung[2] - gravity, sprung[3]>>

\* collisionForce.mul(sphereUniform)
collisionScaled(collision, sphere) == VScale(collision, sphere, 1)

\* invocation instanceIndex of computeVertexForces on buffers B, reading
\* the uniform values U
vertexTaskWith(U, B, instanceIndex) ==
  IF instanceIndex >= getVertexCount THEN B
  ELSE
    LET params == vertexParamsBuffer[instanceIndex]
        isFixed == params[1]
    IN IF skipsVertex(isFixed) THEN B
       ELSE
         LET position == B.position[instanceIndex]
             force1 == preCollisionForce(U, B, instanceIndex)
             newPos == VAdd(position, force1)
             collision == collisionForce(newPos, U.spherePosition,
                                         U.sphereRadius, U.cylinderHeight)
             force == VAdd(force1, collisionScaled(collision, U.sphere))
         IN [B EXCEPT !.force[instanceIndex] = force,
                      !.position[instanceIndex] = VAdd(position, force)]

\* invocation instanceIndex of computeVertexForces on buffers B
vertexTask(B, instanceIndex) == vertexTaskWith(uniforms, B, instanceIndex)

\* ------------------------------------------------------------------------
\* Dispatches
\* ------------------------------------------------------------------------

\* the invocations of computeSpringForces: .compute(Math.max(springCount, 1))
SpringTasks == 0..(Max(getSpringCount, 1) - 1)

\* the invocations of computeVertexForces: .compute(vertexCount)
VertexTasks == 0..(getVertexCount - 1)

RECURSIVE runSpringTasks(_, _, _)
\* spring invocations lo .. hi, in index order: the lower half of the
\* range, then the upper half
runSpringTasks(B, lo, hi) ==
  IF lo > hi THEN B
  ELSE IF lo = hi THEN springTask(B, lo)
  ELSE LET mid == (lo + hi) \div 2
           Upper(b) == runSpringTasks(b, mid + 1, hi)
       IN ApplyTo(runSpringTasks(B, lo, mid), Upper)

RECURSIVE runVertexTasks(_, _, _)
\* vertex invocations lo .. hi, in index order
runVertexTasks(B, lo, hi) ==
  IF lo > hi THEN B
  ELSE IF lo = hi THEN vertexTask(B, lo)
  ELSE LET mid == (lo + hi) \div 2
           Upper(b) == runVertexTasks(b, mid + 1, hi)
       IN ApplyTo(runVertexTasks(B, lo, mid), Upper)

\* a whole Spring Forces dispatch
springStage(B) == runSpringTasks(B, 0, Max(getSpringCount, 1) - 1)

\* a whole Vertex Forces dispatch
vertexStage(B) == runVertexTasks(B, 0, getVertexCount - 1)

\* ------------------------------------------------------------------------
\* resetSimulationBuffers
\* ------------------------------------------------------------------------

\* a variant that leaves the stored stiffness as it is
resetStiffnessKept(stored, base) == stored

\* a variant that adds to the stored stiffness instead of overwriting it
resetStiffnessAdded(stored, base) == stored + base

\* the value the reset loop writes for spring i
resetStiffness(stored, base) == base

\* resetSimulationBuffers on buffers B: positions, stiffness and broken
\* flags are rewritten; the force buffers are not touched
resetBuffers(B) ==
  [B EXCEPT
     !.position = [i \in DOMAIN B.position |-> verletVertices[i + 1].position],
     !.stiffness = [i \in DOMAIN B.stiffness |->
                      IF i < Len(verletSprings)
                      THEN resetStiffness(B.stiffness[i], verletSprings[i + 1].stiffness)
                      ELSE B.stiffness[i]],
     !.broken = [i \in DOMAIN B.broken |-> 0]]

\* ------------------------------------------------------------------------
\* Initial state: setupCloth
\* ------------------------------------------------------------------------

\* all geometry and buffer variables as setupCloth leaves them, the module
\* arrays being prev when it starts
BuiltFrom(prev) ==
  \E g \in {setupVerletGeometry(prev)} :
  \E vb \in {setupVerletVertexBuffers(g)} :
  \E sb \in {setupVerletSpringBuffers(g)} :
     /\ verletVertices' = g.vertices
     /\ verletSprings' = g.springs
     /\ verletVertexColumns' = g.columns
     /\ verletVertexColumnsBottom' = g.columnsBottom
     /\ vertexPositionBuffer' = vb.vertexPositionBuffer
     /\ vertexForceBuffer' = vb.vertexForceBuffer
     /\ vertexParamsBuffer' = vb.vertexParamsBuffer
     /\ springListBuffer' = vb.springListBuffer
     /\ vertexBrokenBuffer' = vb.vertexBrokenBuffer
     /\ springVertexIdBuffer' = sb.springVertexIdBuffer
     /\ springRestLengthBuffer' = sb.springRestLengthBuffer
     /\ springStiffnessBuffer' = sb.springStiffnessBuffer
     /\ springTypeBuffer' = sb.springTypeBuffer
     /\ springForceBuffer' = sb.springForceBuffer
     /\ springEpoch' = [i \in DOMAIN sb.springForceBuffer |-> 0]
     /\ dispatchSnapshot' =
          [position |-> vb.vertexPositionBuffer, force |-> vb.vertexForceBuffer,
           broken |-> vb.vertexBrokenBuffer, stiffness |-> sb.springStiffnessBuffer,
           springForce |-> sb.springForceBuffer]

\* setupCloth on the empty module arrays
InitialGeometry == setupVerletGeometry(EmptyGeometry)

InitialVertexBuffers == setupVerletVertexBuffers(InitialGeometry)

InitialSpringBuffers == setupVerletSpringBuffers(InitialGeometry)

\* no function applied on its own
NoSample == [kind |-> "none"]

\* new THREE.Vector3(0, 10, 0): far above the cloth
FAR_ABOVE == <<0, 20000, 0>>

\* mouseState as declared
ReleasedMouse ==
  [isPressed |-> FALSE, depth |-> 0, position |-> FAR_ABOVE,
   targetPosition |-> FAR_ABOVE]

\* penState as declared
ReleasedPen ==
  [isPressed |-> FALSE, pressure |-> 0, position |-> FAR_ABOVE,
   targetPosition |-> FAR_ABOVE]

\* the program right after setupCloth
Built ==
  /\ verletVertices = InitialGeometry.vertices
  /\ verletSprings = InitialGeometry.springs
  /\ verletVertexColumns = InitialGeometry.columns
  /\ verletVertexColumnsBottom = InitialGeometry.columnsBottom
  /\ vertexPositionBuffer = InitialVertexBuffers.vertexPositionBuffer
  /\ vertexForceBuffer = InitialVertexBuffers.vertexForceBuffer
  /\ vertexParamsBuffer = InitialVertexBuffers.vertexParamsBuffer
  /\ springListBuffer = InitialVertexBuffers.springListBuffer
  /\ vertexBrokenBuffer = InitialVertexBuffers.vertexBrokenBuffer
  /\ springVertexIdBuffer = InitialSpringBuffers.springVertexIdBuffer
  /\ springRestLengthBuffer = InitialSpringBuffers.springRestLengthBuffer
  /\ springStiffnessBuffer = InitialSpringBuffers.springStiffnessBuffer
  /\ springTypeBuffer = InitialSpringBuffers.springTypeBuffer
  /\ springForceBuffer = InitialSpringBuffers.springForceBuffer
  /\ uniforms = setupUniforms
  /\ stage = "idle"
  /\ springPending = {}
  /\ vertexPending = {}
  /\ springDispatches = 0
  /\ vertexDispatches = 0
  /\ springEpoch = [i \in DOMAIN InitialSpringBuffers.springForceBuffer |-> 0]
  /\ dispatchSnapshot =
       [position |-> InitialVertexBuffers.vertexPositionBuffer, force |-> InitialVertexBuffers.vertexForceBuffer,
        broken |-> InitialVertexBuffers.vertexBrokenBuffer, stiffness |-> InitialSpringBuffers.springStiffnessBuffer,
        springForce |-> InitialSpringBuffers.springForceBuffer]
  /\ resetStreak = 0
  /\ repaired = {}
  /\ builds = 1
  /\ timeSinceLastStep = 0
  /\ frameTicks = 0
  /\ frames = 0
  /\ clockDelta = 0
  /\ timestamp = 0
  /\ interactionMode = "ball"
  /\ mouseState = ReleasedMouse
  /\ penState = ReleasedPen
  /\ controlsEnabled = TRUE
  /\ resetInFrame = FALSE

Init == Built /\ sample = NoSample

\* ------------------------------------------------------------------------
\* Actions
\* ------------------------------------------------------------------------

\* the mutable buffers become B
WriteBuffers(B) ==
  /\ vertexPositionBuffer' = B.position
  /\ vertexForceBuffer' = B.force
  /\ vertexBrokenBuffer' = B.broken
  /\ springStiffnessBuffer' = B.stiffness
  /\ springForceBuffer' = B.springForce

\* render() and the settings panel write uniform values between two ticks
SetUniformValues(presets) ==
  /\ stage = "idle"
  /\ \E p \in presets : p # uniforms /\ uniforms' = p
  /\ resetStreak' = 0
  /\ UNCHANGED <<geometryVars, topologyBufferVars, simBufferVars, queueVars,
                 springEpoch, dispatchSnapshot, repaired, builds>>
  /\ UNCHANGED <<clockVars, inputVars, resetInFrame, sample>>

\* a queue that lets the next dispatch start at once
queueNoBarrier(pending) == TRUE

\* two renderer.compute() calls are two compute passes on one GPU queue:
\* the second starts once every invocation of the first has completed
queueBarrier(pending) == pending = {}

\* renderer.compute(computeSpringForces), every invocation run
ComputeSpringForces ==
  /\ stage = "idle"
  /\ springDispatches < MaxTicks
  /\ stage' = "spring"
  /\ springDispatches' = springDispatches + 1
  /\ WriteBuffers(springStage(Buffers))
  /\ springEpoch' = [i \in DOMAIN springEpoch |-> springDispatches + 1]
  /\ dispatchSnapshot' = Buffers
  /\ resetStreak' = 0
  /\ UNCHANGED <<geometryVars, topologyBufferVars, uniforms, springPending,
                 vertexPending, vertexDispatches, repaired, builds>>
  /\ UNCHANGED <<clockVars, inputVars, resetInFrame, sample>>

\* renderer.compute(computeVertexForces), every invocation run; the tick
\* is complete
ComputeVertexForces ==
  /\ stage = "spring"
  /\ queueBarrier(springPending)
  /\ stage' = "idle"
  /\ vertexDispatches' = vertexDispatches + 1
  /\ WriteBuffers(vertexStage(Buffers))
  /\ dispatchSnapshot' = Buffers
  /\ UNCHANGED <<geometryVars, topologyBufferVars, uniforms, springPending,
                 vertexPending, springDispatches, springEpoch, resetStreak, repaired,
                 builds>>
  /\ UNCHANGED <<clockVars, inputVars, resetInFrame, sample>>

\* an interaction state after isPressed = false, depth or pressure = 0 and
\* position.set(0, 10, 0); the target position is kept
released(state, level) ==
  [state EXCEPT !.isPressed = FALSE, ![level] = 0, !.position = FAR_ABOVE]

\* a variant of render() that awaits each compute dispatch
awaitsAtDispatch(position) == position \in {"frame", "spring"}

\* render() is at an await expression when its position is the given one:
\* its body contains none, so it runs from its first to its last statement
\* without returning to the event loop
awaitsAt(position) == FALSE

\* the event loop can run an event handler: no render() call is in
\* progress, or the one in progress is suspended at an await
handlerMayRun(position) == position = "idle" \/ awaitsAt(position)

\* a variant that measures the rest lengths again from the positions
restLengthsRemeasured(restLengths) ==
  [i \in DOMAIN restLengths |->
     distanceTo(vertexPositionBuffer[springVertexIdBuffer[i][1]],
                vertexPositionBuffer[springVertexIdBuffer[i][2]])]

\* springRestLengthBuffer after resetSimulationBuffers: the function
\* rewrites the position, stiffness and broken arrays and no other
restLengthsAfterReset(restLengths) == restLengths

\* the 'Reset Mesh' click handler resetClothSimulation: the interaction
\* states are released, the controls enabled, and resetSimulationBuffers()
\* is called
ResetSimulationBuffers ==
  /\ handlerMayRun(stage)
  /\ springRestLengthBuffer' = restLengthsAfterReset(springRestLengthBuffer)
  /\ mouseState' = released(mouseState, "depth")
  /\ penState' = released(penState, "pressure")
  /\ controlsEnabled' = TRUE
  /\ WriteBuffers(resetBuffers(Buffers))
  /\ resetStreak' = Min(resetStreak + 1, 2)
  /\ repaired' = {i \in DOMAIN springStiffnessBuffer : springStiffnessBuffer[i] = 0}
  /\ resetInFrame' = (resetInFrame \/ stage # "idle")
  /\ UNCHANGED <<geometryVars, vertexParamsBuffer, springVertexIdBuffer,
                 springTypeBuffer, springListBuffer>>
  /\ UNCHANGED <<uniforms, queueVars, springEpoch, dispatchSnapshot, builds>>
  /\ UNCHANGED <<clockVars, interactionMode, sample>>

Next ==
  \/ SetUniformValues(UniformPresets)
  \/ ComputeSpringForces
  \/ ComputeVertexForces
  \/ ResetSimulationBuffers

Spec == Init /\ [][Next]_vars

\* ------------------------------------------------------------------------
\* The same tick, invocation by invocation
\* ------------------------------------------------------------------------

\* the invocations the GPU may run next: the order inside a dispatch is
\* not fixed; the model lets it take either end of the index range left
Schedulable(pending) ==
  {i \in pending : (\A j \in pending : i <= j) \/ (\A j \in pending : i >= j)}

\* renderer.compute(computeSpringForces) is submitted
DispatchSpringForces ==
  /\ stage = "idle"
  /\ springDispatches < MaxTaskTicks
  /\ stage' = "spring"
  /\ springPending' = SpringTasks
  /\ springDispatches' = springDispatches + 1
  /\ dispatchSnapshot' = Buffers
  /\ resetStreak' = 0
  /\ UNCHANGED <<geometryVars, topologyBufferVars, simBufferVars, uniforms,
                 vertexPending, vertexDispatches, springEpoch, repaired, builds>>
  /\ UNCHANGED <<clockVars, inputVars, resetInFrame, sample>>

\* one invocation of computeSpringForces runs
RunSpringTask ==
  /\ \E i \in Schedulable(springPending) :
       /\ WriteBuffers(springTask(Buffers, i))
       /\ springPending' = springPending \ {i}
       /\ springEpoch' = [springEpoch EXCEPT ![i] = springDispatches]
  /\ UNCHANGED <<geometryVars, topologyBufferVars, uniforms, stage, vertexPending,
                 springDispatches, vertexDispatches, dispatchSnapshot, resetStreak,
                 repaired, builds>>
  /\ UNCHANGED <<clockVars, inputVars, resetInFrame, sample>>

\* renderer.compute(computeVertexForces) starts on the GPU
DispatchVertexForces ==
  /\ stage = "spring"
  /\ queueBarrier(springPending)
  /\ stage' = "vertex"
  /\ vertexPending' = VertexTasks
  /\ vertexDispatches' = vertexDispatches + 1
  /\ dispatchSnapshot' = Buffers
  /\ UNCHANGED <<geometryVars, topologyBufferVars, simBufferVars, uniforms,
                 springPending, springDispatches, springEpoch, resetStreak, repaired,
                 builds>>
  /\ UNCHANGED <<clockVars, inputVars, resetInFrame, sample>>

\* one invocation of computeVertexForces runs
RunVertexTask ==
  /\ \E i \in Schedulable(vertexPending) :
       /\ WriteBuffers(vertexTask(Buffers, i))
       /\ vertexPending' = vertexPending \ {i}
  /\ UNCHANGED <<geometryVars, topologyBufferVars, uniforms, stage, springPending,
                 springDispatches, vertexDispatches, springEpoch, dispatchSnapshot,
                 resetStreak, repaired, builds>>
  /\ UNCHANGED <<clockVars, inputVars, resetInFrame, sample>>

\* both dispatches of the tick have run to completion
FinishTick ==
  /\ stage = "vertex"
  /\ springPending = {}
  /\ vertexPending = {}
  /\ stage' = "idle"
  /\ UNCHANGED <<geometryVars, topologyBufferVars, simBufferVars, uniforms,
                 springPending, vertexPending, springDispatches, vertexDispatches,
                 observationVars>>
  /\ UNCHANGED <<clockVars, inputVars, resetInFrame, sample>>

NextTasks ==
  \/ SetUniformValues(TaskUniformPresets)
  \/ DispatchSpringForces
  \/ RunSpringTask
  \/ DispatchVertexForces
  \/ RunVertexTask
  \/ FinishTick
  \/ ResetSimulationBuffers

SpecTasks == Init /\ [][NextTasks]_vars

\* ------------------------------------------------------------------------
\* Building again
\* ------------------------------------------------------------------------

\* setupCloth run once more: geometry, vertex buffers, spring buffers and
\* uniforms are set up again on top of the module state left by the
\* previous build
SetupCloth ==
  /\ stage = "idle"
  /\ builds < MaxBuilds
  /\ builds' = builds + 1
  /\ BuiltFrom(Geometry)
  /\ uniforms' = setupUniforms
  /\ resetStreak' = 0
  /\ repaired' = {}
  /\ UNCHANGED queueVars
  /\ UNCHANGED <<clockVars, inputVars, resetInFrame, sample>>

NextBuild ==
  \/ SetUniformValues(TaskUniformPresets)
  \/ ComputeSpringForces
  \/ ComputeVertexForces
  \/ ResetSimulationBuffers
  \/ SetupCloth

SpecBuild == Init /\ [][NextBuild]_vars

\* ------------------------------------------------------------------------
\* render(): frames and the catch-up loop
\* ------------------------------------------------------------------------

\* const timePerStep = 1 / STEPS_PER_SECOND
timePerStep == TIME_UNITS_PER_SECOND \div STEPS_PER_SECOND

\* what clock.getDelta() may return: nothing, part of a step, one step,
\* several steps, just under, exactly and just over the cap, and a stall
ClockDeltas == {0, 4, timePerStep, 27, MAX_DELTA_TIME - 1, MAX_DELTA_TIME,
                MAX_DELTA_TIME + 1, 1000}

\* a variant that accumulates the delta as the clock returned it
uncappedDelta(delta) == delta

\* Math.min(clock.getDelta(), MAX_DELTA_TIME)
cappedDelta(delta) == Min(delta, MAX_DELTA_TIME)

\* a variant of the loop condition that stops one step early
catchUpPendingStrict(t) == t > timePerStep

\* the condition of the catch-up loop
catchUpPending(t) == t >= timePerStep

\* render() up to the catch-up loop, in mouse mode: the uniforms are set
\* from the interaction state, the capped delta is accumulated
RenderBegin ==
  /\ stage = "idle"
  /\ frames < MaxFrames
  /\ \E p \in TaskUniformPresets : uniforms' = p
  /\ \E delta \in ClockDeltas :
       /\ clockDelta' = delta
       /\ timeSinceLastStep' = timeSinceLastStep + cappedDelta(delta)
  /\ frames' = frames + 1
  /\ frameTicks' = 0
  /\ stage' = "frame"
  /\ UNCHANGED <<geometryVars, topologyBufferVars, simBufferVars, springPending,
                 vertexPending, springDispatches, vertexDispatches, observationVars,
                 sample, inputVars, resetInFrame, timestamp>>

\* one iteration of the catch-up loop: one step of time is taken off and
\* both compute dispatches run
RenderStep ==
  /\ stage = "frame"
  /\ catchUpPending(timeSinceLastStep)
  /\ timestamp' = timestamp + timePerStep
  /\ timeSinceLastStep' = timeSinceLastStep - timePerStep
  /\ frameTicks' = frameTicks + 1
  /\ springDispatches' = springDispatches + 1
  /\ vertexDispatches' = vertexDispatches + 1
  /\ \E afterSprings \in {springStage(Buffers)} :
       /\ WriteBuffers(vertexStage(afterSprings))
       /\ dispatchSnapshot' = afterSprings
  /\ springEpoch' = [i \in DOMAIN springEpoch |-> springDispatches + 1]
  /\ resetStreak' = 0
  /\ UNCHANGED <<geometryVars, topologyBufferVars, uniforms, stage, springPending,
                 vertexPending, repaired, builds, frames, clockDelta, sample,
                 inputVars, resetInFrame>>

\* the loop is left and the scene is rendered
RenderEnd ==
  /\ stage = "frame"
  /\ ~catchUpPending(timeSinceLastStep)
  /\ stage' = "idle"
  /\ UNCHANGED <<geometryVars, topologyBufferVars, simBufferVars, uniforms,
                 springPending, vertexPending, springDispatches, vertexDispatches,
                 observationVars, clockVars, sample, inputVars, resetInFrame>>

NextFrames ==
  \/ RenderBegin
  \/ RenderStep
  \/ RenderEnd
  \/ ResetSimulationBuffers

SpecFrames == Init /\ [][NextFrames]_vars

\* ------------------------------------------------------------------------
\* The event loop: input handlers and render(), dispatch by dispatch
\* ------------------------------------------------------------------------

InteractionModes == {"ball", "mouse", "tablet"}

\* event.button of the mouse events explored: left and right
Buttons == {0, 2}

\* event.pointerType of the pointer events explored
PointerTypes == {"pen", "mouse"}

\* event.pressure of the pen events explored, in tenths
Pressures == {5}

\* where the ray through the pointer meets the cloth plane, clamped to the
\* cloth
PointerTargets == {<<300, 0, 0>>}

\* what clock.getDelta() returns in the frames explored with input events:
\* less than one step, and two steps
InputClockDeltas == {4, 2 * timePerStep}

\* Vector3.lerp(target, 0.3), then position.y = 0
lerpOnCloth(position, targetPosition) ==
  LET moved == VAdd(position, VScale(VSub(targetPosition, position), 3, 10))
  IN <<moved[1], 0, moved[3]>>

\* updateSphere: Math.sin(timestamp * 0.8) * 1.0 + 0.25 with the sine of a
\* small angle taken as the angle (closer than one length unit while
\* timestamp stays below 0.18 s): 2000 * 0.8 * t / 3600 + 500
sphereY(t) == 500 + Div(4 * t, 9)

\* the collision uniforms render() sets from the interaction mode and the
\* press states before it runs any tick
collisionUniforms(U) ==
  IF interactionMode = "ball"
  THEN [U EXCEPT !.sphere = 1, !.sphereRadius = SPHERE_RADIUS, !.cylinderHeight = 0]
  ELSE IF interactionMode = "mouse" /\ mouseState.isPressed
  THEN [U EXCEPT !.sphere = 1, !.sphereRadius = MOUSE_CYLINDER_RADIUS,
                 !.cylinderHeight = mouseState.depth,
                 !.spherePosition = <<mouseState.position[1], 0, mouseState.position[3]>>]
  ELSE IF interactionMode = "tablet" /\ penState.isPressed
  THEN [U EXCEPT !.sphere = 1, !.sphereRadius = MOUSE_CYLINDER_RADIUS,
                 !.cylinderHeight = (penState.pressure * MOUSE_CYLINDER_MAX_HEIGHT) \div 10,
                 !.spherePosition = <<penState.position[1], 0, penState.position[3]>>]
  ELSE [U EXCEPT !.sphere = 0, !.cylinderHeight = 0]

\* render() up to its loop, the uniforms set from the interaction state
RenderFromInput ==
  /\ stage = "idle"
  /\ frames < MaxFrames
  /\ uniforms' = collisionUniforms(uniforms)
  /\ \E delta \in InputClockDeltas :
       /\ clockDelta' = delta
       /\ timeSinceLastStep' = timeSinceLastStep + cappedDelta(delta)
  /\ frames' = frames + 1
  /\ frameTicks' = 0
  /\ stage' = "frame"
  /\ UNCHANGED <<geometryVars, topologyBufferVars, simBufferVars, springPending,
                 vertexPending, springDispatches, vertexDispatches, observationVars,
                 sample, inputVars, resetInFrame, timestamp>>

\* updateMouseCylinder
updateMouseCylinder(state) ==
  IF ~state.isPressed THEN state
  ELSE [state EXCEPT
          !.depth = Min(state.depth + MOUSE_DEPTH_SPEED, MOUSE_CYLINDER_MAX_HEIGHT),
          !.position = lerpOnCloth(state.position, state.targetPosition)]

\* updatePenCylinder
updatePenCylinder(state) ==
  IF ~state.isPressed THEN state
  ELSE [state EXCEPT !.position = lerpOnCloth(state.position, state.targetPosition)]

\* the first half of a loop iteration: time advances, the probe of the
\* current mode is updated, and the spring shader is dispatched
RenderSpringDispatch ==
  /\ stage = "frame"
  /\ catchUpPending(timeSinceLastStep)
  /\ timestamp' = timestamp + timePerStep
  /\ timeSinceLastStep' = timeSinceLastStep - timePerStep
  /\ uniforms' = IF interactionMode = "ball"
                 THEN [uniforms EXCEPT !.spherePosition = <<0, sphereY(timestamp'), 0>>]
                 ELSE uniforms
  /\ mouseState' = IF interactionMode = "mouse" THEN updateMouseCylinder(mouseState)
                                                ELSE mouseState
  /\ penState' = IF interactionMode = "tablet" THEN updatePenCylinder(penState)
                                               ELSE penState
  /\ stage' = "spring"
  /\ springDispatches' = springDispatches + 1
  /\ WriteBuffers(springStage(Buffers))
  /\ springEpoch' = [i \in DOMAIN springEpoch |-> springDispatches + 1]
  /\ dispatchSnapshot' = Buffers
  /\ resetStreak' = 0
  /\ UNCHANGED <<geometryVars, topologyBufferVars, springPending, vertexPending,
                 vertexDispatches, repaired, builds, frames, frameTicks, clockDelta,
                 sample, interactionMode, controlsEnabled, resetInFrame>>

\* the second half of a loop iteration: the vertex shader is dispatched
RenderVertexDispatch ==
  /\ stage = "spring"
  /\ frames > 0
  /\ stage' = "frame"
  /\ frameTicks' = frameTicks + 1
  /\ vertexDispatches' = vertexDispatches + 1
  /\ WriteBuffers(vertexStage(Buffers))
  /\ dispatchSnapshot' = Buffers
  /\ UNCHANGED <<geometryVars, topologyBufferVars, uniforms, springPending,
                 vertexPending, springDispatches, springEpoch, resetStreak, repaired,
                 builds, timeSinceLastStep, frames, clockDelta, timestamp, sample,
                 inputVars, resetInFrame>>

\* what the handlers leave alone
handlerFrame ==
  UNCHANGED <<geometryVars, topologyBufferVars, simBufferVars, uniforms, queueVars,
              observationVars, clockVars, sample, resetInFrame>>

\* onMouseDown
OnMouseDown ==
  /\ handlerMayRun(stage)
  /\ \E button \in Buttons, target \in PointerTargets :
       IF interactionMode # "mouse" \/ button # 0
       THEN UNCHANGED inputVars
       ELSE /\ controlsEnabled' = FALSE
            /\ mouseState' = [mouseState EXCEPT !.isPressed = TRUE, !.depth = 0,
                                                !.targetPosition = target]
            /\ UNCHANGED <<interactionMode, penState>>
  /\ handlerFrame

\* onMouseUp, also the mouseleave handler
OnMouseUp ==
  /\ handlerMayRun(stage)
  /\ controlsEnabled' = TRUE
  /\ mouseState' = released(mouseState, "depth")
  /\ UNCHANGED <<interactionMode, penState>>
  /\ handlerFrame

\* onMouseMove
OnMouseMove ==
  /\ handlerMayRun(stage)
  /\ \E target \in PointerTargets :
       IF interactionMode # "mouse" THEN UNCHANGED inputVars
       ELSE /\ mouseState' = [mouseState EXCEPT !.targetPosition = target]
            /\ UNCHANGED <<interactionMode, penState, controlsEnabled>>
  /\ handlerFrame

\* onPointerDown
OnPointerDown ==
  /\ handlerMayRun(stage)
  /\ \E pointerType \in PointerTypes, pressure \in Pressures, target \in PointerTargets :
       IF interactionMode # "tablet" \/ pointerType # "pen"
       THEN UNCHANGED inputVars
       ELSE /\ controlsEnabled' = FALSE
            /\ penState' = [penState EXCEPT !.isPressed = TRUE, !.pressure = pressure,
                                            !.targetPosition = target]
            /\ UNCHANGED <<interactionMode, mouseState>>
  /\ handlerFrame

\* onPointerUp, also the pointerleave and pointercancel handler
OnPointerUp ==
  /\ handlerMayRun(stage)
  /\ \E pointerType \in PointerTypes :
       IF pointerType # "pen" THEN UNCHANGED inputVars
       ELSE /\ controlsEnabled' = TRUE
            /\ penState' = released(penState, "pressure")
            /\ UNCHANGED <<interactionMode, mouseState>>
  /\ handlerFrame

\* onPointerMove
OnPointerMove ==
  /\ handlerMayRun(stage)
  /\ \E pointerType \in PointerTypes, pressure \in Pressures, target \in PointerTargets :
       IF interactionMode # "tablet" \/ pointerType # "pen"
       THEN UNCHANGED inputVars
       ELSE /\ penState' = [penState EXCEPT
                              !.pressure = IF penState.isPressed THEN pressure ELSE @,
                              !.targetPosition = target]
            /\ UNCHANGED <<interactionMode, mouseState, controlsEnabled>>
  /\ handlerFrame

\* the change handler of the mode select
ModeChange ==
  /\ handlerMayRun(stage)
  /\ \E mode \in InteractionModes : interactionMode' = mode
  /\ mouseState' = released(mouseState, "depth")
  /\ penState' = released(penState, "pressure")
  /\ UNCHANGED controlsEnabled
  /\ handlerFrame

NextEvents ==
  \/ RenderFromInput
  \/ RenderSpringDispatch
  \/ RenderVertexDispatch
  \/ RenderEnd
  \/ ResetSimulationBuffers
  \/ OnMouseDown
  \/ OnMouseUp
  \/ OnMouseMove
  \/ OnPointerDown
  \/ OnPointerUp
  \/ OnPointerMove
  \/ ModeChange

SpecEvents == Init /\ [][NextEvents]_vars

\* ------------------------------------------------------------------------
\* Functions applied on their own
\* ------------------------------------------------------------------------

programVars ==
  <<geometryVars, topologyBufferVars, simBufferVars, uniforms, queueVars,
    observationVars, clockVars, inputVars, resetInFrame>>

\* the number of iterations of for (let x = 0; x <= n; x++)
loopCount(n) == Max(n + 1, 0)

\* what setupVerletGeometry and the buffer setup produce for segment
\* counts segX, segY and layer distance thickness: no statement of either
\* throws, so the build always completes; x * (CLOTH_WIDTH / 0) is
\* 0 * Infinity = NaN in the one column built for segX = 0 (and likewise
\* for segY = 0)
setupOutcome(segX, segY, thickness) ==
  LET columns == loopCount(segX)
      rows == loopCount(segY)
      inPlane == Max(segX, 0) * rows + columns * Max(segY, 0)
                   + 2 * Max(segX, 0) * Max(segY, 0)
      vertexCount == 2 * columns * rows
      springCount == 2 * inPlane + columns * rows
  IN [thrown |-> FALSE,
      vertexCount |-> vertexCount,
      springCount |-> springCount,
      positionsNaN |-> vertexCount > 0 /\ (segX = 0 \/ segY = 0),
      zRestLength |-> IF thickness < 0 THEN -thickness ELSE thickness,
      springBufferLength |-> Max(springCount, 1),
      springInvocations |-> Max(springCount, 1)]

\* configurations given to the builder
ConfigInputs ==
  [kind : {"config"}, segmentsX : -1..MaxConfigSegments,
   segmentsY : -1..MaxConfigSegments, thickness : {-CLOTH_THICKNESS, 0, CLOTH_THICKNESS},
   done : {FALSE}]

\* setupCloth run with the configuration of the sample
ApplyConfig ==
  /\ sample.kind = "config"
  /\ ~sample.done
  /\ sample' = [kind |-> "config", segmentsX |-> sample.segmentsX,
                segmentsY |-> sample.segmentsY, thickness |-> sample.thickness,
                done |-> TRUE,
                out |-> setupOutcome(sample.segmentsX, sample.segmentsY,
                                     sample.thickness)]
  /\ UNCHANGED programVars

\* rest lengths of the samples of the stretch test: the Z-spring rest
\* length and one that has an exact threshold length
StretchRestLengths == {CLOTH_THICKNESS, 10}

\* lengths of the samples of the stretch test: around rest, around 1.9
\* times rest, and around 999999 times rest
StretchLengths ==
  {EPSILON, 6, 10, 11, 12, 19, 20, 5999999, 6000000, 9999990, 9999991}

\* one spring seen by an invocation of computeSpringForces: its length,
\* rest length, stored stiffness and the broken indicators of its two
\* endpoints, in a build with SPRING_BREAK_ENABLED = enabled
StretchInputs ==
  [kind : {"stretch"}, enabled : BOOLEAN, restLength : StretchRestLengths,
   dist : StretchLengths,
   stored : {0, DEFAULT_IN_PLANE_STIFFNESS, Z_SPRING_STIFFNESS},
   marks : {<<0, 0>>, <<1, 1>>}, done : {FALSE}]

\* the break branch of computeSpringForces on the sample
ApplyStretch ==
  /\ sample.kind = "stretch"
  /\ ~sample.done
  /\ LET breaks == stretchBreaksWhen(sample.enabled, sample.dist, sample.restLength)
     IN sample' = [kind |-> "stretch", enabled |-> sample.enabled,
                   restLength |-> sample.restLength, dist |-> sample.dist,
                   stored |-> sample.stored, marks |-> sample.marks,
                   done |-> TRUE,
                   out |-> [broke |-> breaks,
                            stored |-> storedStiffness(sample.stored, breaks),
                            marks |-> IF breaks
                                      THEN <<brokenMark(0), brokenMark(0)>>
                                      ELSE sample.marks]]
  /\ UNCHANGED programVars

\* tentative positions of the samples of the collision response, as
\* offsets from the probe position: a grid through the probe, and points
\* at whole distances 100, 240 and 300 from it
ProbeOffsets ==
  {<<x, y, z>> : x \in {-100, 0, 400}, y \in {-900, -700, -500, -300, 0, 50}, z \in {0, 50}}
    \cup {<<100, 0, 0>>, <<60, 80, 0>>, <<0, -60, 80>>, <<240, 0, 0>>,
          <<0, 144, 192>>, <<180, 0, 240>>, <<0, 0, -300>>}

\* a tentative position handed to the collision code of
\* computeVertexForces, and the probe uniforms
CollisionInputs ==
  [kind : {"collision"}, offset : ProbeOffsets,
   spherePosition : {<<0, 0, 0>>, <<300, 0, 0>>},
   sphereRadius : {SPHERE_RADIUS},
   cylinderHeight : {-100, 0, 600}, done : {FALSE}]

\* the collision code of computeVertexForces on the sample: which of the
\* three If blocks ran, and the resulting collisionForce
ApplyCollision ==
  /\ sample.kind = "collision"
  /\ ~sample.done
  /\ LET newPos == VAdd(sample.spherePosition, sample.offset)
         c == sample.spherePosition
         r == sample.sphereRadius
         h == sample.cylinderHeight
     IN sample' = [kind |-> "collision", offset |-> sample.offset,
                   spherePosition |-> c, sphereRadius |-> r,
                   cylinderHeight |-> h, done |-> TRUE,
                   newPos |-> newPos,
                   ran |-> [body |-> cylinderCollision(newPos, c, r, h),
                            cap |-> sphereCollision(newPos, c, r, h) /\ h > 0,
                            pure |-> pureSphereCollision(h)],
                   collisionForce |-> collisionForce(newPos, c, r, h)]
  /\ UNCHANGED programVars

\* the block that assigns collisionForce calls normalize() on the zero
\* vector: the tentative position is the centre of the sphere, or on the
\* axis of the cylinder body (below the cap the difference to the cap
\* centre is never zero)
normalizesZero(newPos, spherePosition, sphereRadius, cylinderHeight) ==
  \/ /\ pureSphereCollision(cylinderHeight)
     /\ newPos = spherePosition
  \/ /\ ~pureSphereCollision(cylinderHeight)
     /\ ~sphereCollision(newPos, spherePosition, sphereRadius, cylinderHeight)
     /\ cylinderCollision(newPos, spherePosition, sphereRadius, cylinderHeight)
     /\ newPos[1] = spherePosition[1]
     /\ newPos[3] = spherePosition[3]

\* a float vector: its components, or not a number
Finite(v) == [nan |-> FALSE, v |-> v]

NotANumber == [nan |-> TRUE, v |-> ZeroVec]

\* the values collisionForce can have after the three If blocks: the
\* normalize() of the shading language divides by the length, and for the
\* zero vector its result is not defined: a GPU returns the zero vector
\* or not-a-number components
collisionOutcomes(newPos, spherePosition, sphereRadius, cylinderHeight) ==
  IF normalizesZero(newPos, spherePosition, sphereRadius, cylinderHeight)
  THEN {Finite(ZeroVec), NotANumber}
  ELSE {Finite(collisionForce(newPos, spherePosition, sphereRadius, cylinderHeight))}

\* force.addAssign(collisionForce.mul(sphereUniform)): not-a-number times
\* 0 or 1 is not a number, and so is the sum
addCollision(force, collision, sphere) ==
  IF collision.nan THEN NotANumber
  ELSE Finite(VAdd(force, collisionScaled(collision.v, sphere)))

\* a movable vertex at the collision code of computeVertexForces: its
\* position, its accumulator after dampening, springs and gravity, and
\* the probe uniforms
ProbeInputs ==
  [kind : {"probe"}, position : {<<0, 3, 0>>, <<100, -3, 0>>},
   force : {<<0, -26, 0>>, <<10, -3, 0>>},
   sphere : {0, 1},
   spherePosition : {<<0, 0, 0>>, <<0, -23, 0>>, <<300, 0, 0>>},
   sphereRadius : {SPHERE_RADIUS, MOUSE_CYLINDER_RADIUS},
   cylinderHeight : {0, 600}, done : {FALSE}]

\* the collision code and the final assignment of vertexForceBuffer on
\* the sample
ApplyProbe ==
  /\ sample.kind = "probe"
  /\ ~sample.done
  /\ \E collision \in collisionOutcomes(VAdd(sample.position, sample.force),
                                         sample.spherePosition, sample.sphereRadius,
                                         sample.cylinderHeight) :
       sample' = [kind |-> "probe", position |-> sample.position,
                  force |-> sample.force, sphere |-> sample.sphere,
                  spherePosition |-> sample.spherePosition,
                  sphereRadius |-> sample.sphereRadius,
                  cylinderHeight |-> sample.cylinderHeight, done |-> TRUE,
                  vertexForce |-> addCollision(sample.force, collision, sample.sphere)]
  /\ UNCHANGED programVars

\* positions of the movable endpoint of the samples of a single spring,
\* as offsets from the fixed endpoint: on the fixed endpoint, shorter and
\* longer than the rest lengths 6 and 1500, at 1.9 times 1500 and beyond
PullOffsets ==
  {<<0, 0, 0>>, <<0, 3, 0>>, <<0, -7, 0>>, <<0, 11, 0>>, <<0, 12, 0>>,
   <<1000, 0, 0>>, <<0, 0, -1600>>, <<1200, 0, 1600>>, <<-2850, 0, 0>>,
   <<2851, 0, 0>>, <<1800, 0, 2400>>}

\* a movable vertex (id 1) whose only spring ends at a fixed vertex (id 0):
\* which end of the spring it is, where it is, the spring's rest length
\* and stored stiffness, and the stiffness multiplier of the spring's type;
\* its accumulator is zero
PullInputs ==
  [kind : {"pull"}, movableIs : {"vertex0", "vertex1"},
   fixedPosition : {<<0, 0, 0>>, <<-1500, 3, 0>>},
   offset : PullOffsets,
   restLength : {CLOTH_THICKNESS, 1500},
   stored : {DEFAULT_IN_PLANE_STIFFNESS, Z_SPRING_STIFFNESS},
   multiplier : {0, 10, 30}, done : {FALSE}]

\* one tick on the sample: the spring invocation, then the vertex
\* invocation of the movable vertex from a zero accumulator, with the
\* gravity term and the collision term left out
ApplyPull ==
  /\ sample.kind = "pull"
  /\ ~sample.done
  /\ LET position == VAdd(sample.fixedPosition, sample.offset)
         movableFirst == sample.movableIs = "vertex0"
         vertex0Position == IF movableFirst THEN position ELSE sample.fixedPosition
         vertex1Position == IF movableFirst THEN sample.fixedPosition ELSE position
         outcome == springOutcome(sample.restLength, sample.stored, sample.multiplier,
                                  vertex0Position, vertex1Position)
         damped == VScale(ZeroVec, DEFAULT_DAMPENING, 100)
         force == VAdd(damped, signedSpringForce(outcome.force,
                                                 IF movableFirst THEN 1 ELSE 0, 1))
     IN sample' = [kind |-> "pull", movableIs |-> sample.movableIs,
                   fixedPosition |-> sample.fixedPosition, offset |-> sample.offset,
                   restLength |-> sample.restLength, stored |-> sample.stored,
                   multiplier |-> sample.multiplier, done |-> TRUE,
                   broke |-> outcome.breaks,
                   vertexForce |-> force,
                   vertexPosition |-> VAdd(position, force)]
  /\ UNCHANGED programVars

SampleInputs ==
  ConfigInputs \cup StretchInputs \cup CollisionInputs \cup ProbeInputs
    \cup PullInputs

InitSamples == Built /\ sample \in SampleInputs

NextSamples ==
  \/ ApplyConfig
  \/ ApplyStretch
  \/ ApplyCollision
  \/ ApplyProbe
  \/ ApplyPull

SpecSamples == InitSamples /\ [][NextSamples]_vars

\* ------------------------------------------------------------------------
\* Properties
\* ------------------------------------------------------------------------

VertexIds == 0..(getVertexCount - 1)

SpringIds == 0..(getSpringCount - 1)

\* the stiffness a spring was built with
baseStiffness(s) == verletSprings[s + 1].stiffness

\* the current length of spring s
springLength(s) ==
  Max(distanceTo(vertexPositionBuffer[springVertexIdBuffer[s][1]],
                 vertexPositionBuffer[springVertexIdBuffer[s][2]]), EPSILON)

\* the step is a call of resetSimulationBuffers
IsResetStep == resetStreak' = Min(resetStreak + 1, 2)

\* C1: a spring's stored stiffness is always 0 or the stiffness it was
\* built with, and once it is 0 it stays 0 through every later tick: only
\* a reset step takes it away from 0.
MonotonicBreakage ==
  /\ [](\A s \in SpringIds : springStiffnessBuffer[s] \in {0, baseStiffness(s)})
  /\ [][\A s \in SpringIds :
          (springStiffnessBuffer[s] = 0 /\ springStiffnessBuffer'[s] # 0)
            => IsResetStep]_vars

\* a spring stage has just run over a spring that was broken before it and
\* is no longer stretched past the threshold, and the spring is still broken
BrokenSpringStaysBroken ==
  /\ stage = "spring"
  /\ \E s \in SpringIds :
       /\ dispatchSnapshot.stiffness[s] = 0
       /\ springStiffnessBuffer[s] = 0
       /\ ~stretchBreaks(springLength(s), springRestLengthBuffer[s])

\* C2: a vertex marked fixed keeps the position it was built at, and its
\* force accumulator stays zero, whatever the probe, gravity or springs do.
FixedVertexInvariance ==
  \A v \in VertexIds :
    verletVertices[v + 1].isFixed
      => /\ vertexPositionBuffer[v] = verletVertices[v + 1].position
         /\ vertexForceBuffer[v] = ZeroVec

\* two ticks have run with the probe enabled and overlapping a fixed
\* vertex, and a movable vertex has been displaced
FixedVertexUnderProbe ==
  /\ stage = "idle"
  /\ vertexDispatches >= 2
  /\ uniforms.sphere = 1
  /\ uniforms.cylinderHeight = 0
  /\ \E v \in VertexIds :
       /\ verletVertices[v + 1].isFixed
       /\ distanceTo(vertexPositionBuffer[v], uniforms.spherePosition)
            < uniforms.sphereRadius
  /\ \E v \in VertexIds :
       /\ ~verletVertices[v + 1].isFixed
       /\ vertexPositionBuffer[v] # verletVertices[v + 1].position

\* C3: whenever vertex tasks are running or have run in a tick, every
\* spring task of that tick has completed; spring and vertex dispatches
\* alternate strictly, spring first; and every spring force a vertex stage
\* can read was stored by the spring stage of its own tick.
BarrierOrdering ==
  /\ vertexDispatches <= springDispatches
  /\ springDispatches <= vertexDispatches + 1
  /\ stage = "idle" => (vertexDispatches = springDispatches /\ vertexPending = {})
  /\ stage = "spring" => (springDispatches = vertexDispatches + 1 /\ vertexPending = {})
  /\ stage = "vertex"
       => /\ springPending = {}
          /\ vertexDispatches = springDispatches
          /\ \A s \in SpringIds : springEpoch[s] = springDispatches

\* the vertex stage of the second tick is under way, some vertex tasks
\* done and some not, after a spring stage that broke a spring
VertexStageUnderWay ==
  /\ stage = "vertex"
  /\ springDispatches = 2
  /\ vertexPending # {}
  /\ vertexPending # VertexTasks
  /\ \E s \in SpringIds : springStiffnessBuffer[s] = 0

\* C4: whatever order the tasks of a dispatch ran in, the buffers at the
\* end of a spring stage are those the spring tasks produce in index order
\* from the buffers at its start, and likewise for a vertex stage.
TaskOrderIndependence ==
  /\ (stage = "spring" /\ springPending = {})
       => Buffers = springStage(dispatchSnapshot)
  /\ (stage = "vertex" /\ vertexPending = {})
       => Buffers = vertexStage(dispatchSnapshot)

\* a spring stage has ended in which two springs sharing an endpoint broke
SharedEndpointBreaks ==
  /\ stage = "spring"
  /\ springPending = {}
  /\ \E s, t \in SpringIds :
       /\ s # t
       /\ dispatchSnapshot.stiffness[s] # 0 /\ springStiffnessBuffer[s] = 0
       /\ dispatchSnapshot.stiffness[t] # 0 /\ springStiffnessBuffer[t] = 0
       /\ {springVertexIdBuffer[s][1], springVertexIdBuffer[s][2]}
            \cap {springVertexIdBuffer[t][1], springVertexIdBuffer[t][2]} # {}

\* the mutable buffers right after a reset
JustReset == resetStreak >= 1

\* C5: right after resetSimulationBuffers every vertex is at the position
\* it was built at, every spring has the stiffness it was built with, and
\* every broken indicator is 0.
ResetPostcondition ==
  JustReset
    => /\ \A v \in VertexIds :
            /\ vertexPositionBuffer[v] = verletVertices[v + 1].position
            /\ vertexBrokenBuffer[v] = 0
       /\ \A s \in SpringIds : springStiffnessBuffer[s] = baseStiffness(s)

\* a reset has just run on a cloth that had broken springs and a moving
\* vertex
ResetOfTornCloth ==
  /\ resetStreak = 1
  /\ repaired # {}
  /\ \E v \in VertexIds : vertexForceBuffer[v] # ZeroVec

\* C6: a reset that directly follows a reset leaves every simulation buffer
\* as the first one left it.
ResetIdempotent ==
  [][resetStreak' = 2 => Buffers' = Buffers]_vars

\* two resets in a row have run after the cloth had moved
ResetTwice ==
  /\ resetStreak = 2
  /\ vertexDispatches >= 1
  /\ \E v \in VertexIds : vertexForceBuffer[v] # ZeroVec

\* C7: right after a reset, positions, force accumulators, stiffness and
\* broken indicators are all as they were right after setup.
ResetRestoresInitialState ==
  JustReset
    => /\ \A v \in VertexIds :
            /\ vertexPositionBuffer[v] = verletVertices[v + 1].position
            /\ vertexForceBuffer[v] = ZeroVec
            /\ vertexBrokenBuffer[v] = 0
       /\ \A s \in SpringIds : springStiffnessBuffer[s] = baseStiffness(s)

\* C8: a Z-spring never has stored stiffness 0.
ZSpringsUnbreakable ==
  \A s \in SpringIds : springTypeBuffer[s] = 1 => springStiffnessBuffer[s] # 0

\* the spring ids in the adjacency slice of vertex v
adjacencySlice(v) ==
  {springListBuffer[i] :
     i \in vertexParamsBuffer[v][3] ..
             (vertexParamsBuffer[v][3] + vertexParamsBuffer[v][2] - 1)}

\* the springs that have vertex v as an endpoint
incidentSprings(v) ==
  {s \in SpringIds : springVertexIdBuffer[s][1] = v \/ springVertexIdBuffer[s][2] = v}

\* C9 as stated: for every vertex, fixed or not, the adjacency slice holds
\* exactly the springs ending at it and springCount is their number.
AdjacencyCompleteAllVertices ==
  \A v \in VertexIds :
    /\ adjacencySlice(v) = incidentSprings(v)
    /\ vertexParamsBuffer[v][2] = Cardinality(incidentSprings(v))

\* C9 amended: for every movable vertex the adjacency slice holds exactly
\* the springs ending at it and springCount is their number; a fixed vertex
\* has springCount 0 and springPointer 0, whatever springs end at it.
AdjacencyCompleteMovable ==
  \A v \in VertexIds :
    IF vertexParamsBuffer[v][1] = 0
    THEN /\ adjacencySlice(v) = incidentSprings(v)
         /\ vertexParamsBuffer[v][2] = Cardinality(incidentSprings(v))
    ELSE /\ vertexParamsBuffer[v][2] = 0
         /\ vertexParamsBuffer[v][3] = 0

\* the table is in use: a tick has run, a movable vertex is the second
\* endpoint of one of its springs, and a fixed vertex has springs ending
\* at it
AdjacencyInUse ==
  /\ vertexDispatches >= 1
  /\ \E v \in VertexIds :
       /\ vertexParamsBuffer[v][1] = 0
       /\ \E s \in adjacencySlice(v) : springVertexIdBuffer[s][2] = v
  /\ \E v \in VertexIds :
       /\ vertexParamsBuffer[v][1] # 0
       /\ incidentSprings(v) # {}

\* what a build fixes: vertex ids and fixed flags, spring ids and endpoint
\* pairs, rest lengths, spring types and the adjacency table
Topology ==
  [vertices |-> [i \in 1..Len(verletVertices) |->
                   <<verletVertices[i].id, verletVertices[i].isFixed>>],
   springs |-> [i \in 1..Len(verletSprings) |->
                  <<verletSprings[i].id, verletSprings[i].vertex0,
                    verletSprings[i].vertex1>>],
   springVertexIds |-> springVertexIdBuffer,
   restLengths |-> springRestLengthBuffer,
   springTypes |-> springTypeBuffer,
   vertexParams |-> vertexParamsBuffer,
   springList |-> springListBuffer]

\* C10: a build that follows an earlier build leaves the same vertex ids,
\* fixed flags, spring ids, endpoint pairs, rest lengths and adjacency
\* table as were there before it.
TopologyDeterminism ==
  [][builds' = builds + 1 => Topology' = Topology]_vars

\* the cloth has been built a second time after a tick had run on the
\* first build
RebuiltAfterTick ==
  /\ builds = 2
  /\ vertexDispatches >= 1
  /\ \A v \in VertexIds : vertexForceBuffer[v] = ZeroVec

\* what the Loop of the vertex invocation for v adds to its accumulator,
\* the spring forces being those of B
springContribution(B, v) ==
  accumulateSpringForces(B, v, ZeroVec, vertexParamsBuffer[v][3],
                         vertexParamsBuffer[v][3] + vertexParamsBuffer[v][2])

\* what spring s alone adds to the accumulator of v: the difference its
\* stored force makes to the Loop of v
contributionOf(s, v) ==
  VSub(springContribution(Buffers, v),
       springContribution([Buffers EXCEPT !.springForce[s] = ZeroVec], v))

\* spring s is intact and both its endpoints are movable
joinsMovable(s) ==
  /\ springStiffnessBuffer[s] > 0
  /\ vertexParamsBuffer[springVertexIdBuffer[s][1]][1] = 0
  /\ vertexParamsBuffer[springVertexIdBuffer[s][2]][1] = 0

\* C11: once the spring stage of a tick has stored the forces, an intact
\* spring between two movable vertices contributes its stored force F to
\* the accumulator of its first endpoint and -F to that of its second.
ForceConservation ==
  stage = "spring"
    => \A s \in SpringIds :
         joinsMovable(s)
           => /\ contributionOf(s, springVertexIdBuffer[s][1]) = springForceBuffer[s]
              /\ contributionOf(s, springVertexIdBuffer[s][2])
                   = VNeg(springForceBuffer[s])

\* the spring stage has stored a non-zero force for an intact spring
\* between two movable vertices
MovablePairUnderTension ==
  /\ stage = "spring"
  /\ \E s \in SpringIds : joinsMovable(s) /\ springForceBuffer[s] # ZeroVec

\* the configuration of a sample is one the builder has no meaning for
invalidConfig(c) == c.segmentsX <= 0 \/ c.segmentsY <= 0 \/ c.thickness <= 0

\* C12: a build with zero or negative segment counts or non-positive
\* thickness ends in an error, with no topology produced.
ConstructionFailsFast ==
  (sample.kind = "config" /\ sample.done /\ invalidConfig(sample))
    => /\ sample.out.thrown
       /\ sample.out.vertexCount = 0
       /\ sample.out.springCount = 0

\* C15: with breakage enabled a spring task zeroes the stored stiffness
\* and marks both endpoints exactly when dist / restLength is strictly
\* above SPRING_BREAK_THRESHOLD; with breakage disabled no spring breaks;
\* a task on an already broken spring changes nothing.
BreakageRule ==
  (sample.kind = "stretch" /\ sample.done)
    => /\ sample.enabled
            => (sample.out.broke
                  <=> sample.dist * 10 > SPRING_BREAK_THRESHOLD * sample.restLength)
       /\ sample.out.broke
            => (sample.out.stored = 0 /\ sample.out.marks = <<1, 1>>)
       /\ ~sample.out.broke
            => (sample.out.stored = sample.stored /\ sample.out.marks = sample.marks)
       /\ ~sample.enabled => ~sample.out.broke
       /\ (sample.stored = 0 /\ sample.marks = <<1, 1>>)
            => (sample.out.stored = 0 /\ sample.out.marks = sample.marks)

\* the number of fields of a record of truth values that are TRUE
CountTrue(flags) == Cardinality({k \in DOMAIN flags : flags[k]})

\* C16: for every tentative position and probe at most one of the three
\* collision responses contributes: the pure sphere exactly when height
\* <= 0, the cylinder body exactly when height > 0, bottom <= y <= top and
\* the horizontal distance is below the radius, the bottom cap exactly when
\* height > 0, y < bottom and the distance to the cap centre is below the
\* radius; the correction is that response, or zero when none applies, and
\* in cylinder mode it is zero for a point above the top.
CollisionCasePartition ==
  (sample.kind = "collision" /\ sample.done)
    => LET p == sample.newPos
           c == sample.spherePosition
           r == sample.sphereRadius
           h == sample.cylinderHeight
           top == c[2]
           bottom == top - h
           horizontal == VLength(<<p[1] - c[1], 0, p[3] - c[3]>>)
           toCap == VLength(VSub(p, <<c[1], bottom, c[3]>>))
           pure == h <= 0
           body == h > 0 /\ bottom <= p[2] /\ p[2] <= top /\ horizontal < r
           cap == h > 0 /\ p[2] < bottom /\ toCap < r
       IN /\ CountTrue([k \in {"body", "cap", "pure"} |-> sample.ran[k]]) <= 1
          /\ sample.ran = [body |-> body, cap |-> cap, pure |-> pure]
          /\ pure => sample.collisionForce = pureSphereResponse(p, c, r)
          /\ body => sample.collisionForce = cylinderResponse(p, c, r)
          /\ cap => sample.collisionForce = capResponse(p, c, r, h)
          /\ ~(pure \/ body \/ cap) => sample.collisionForce = ZeroVec
          /\ (h > 0 /\ p[2] > top) => sample.collisionForce = ZeroVec

\* a point above the top of an extended cylinder, inside its radius, has
\* been given no correction
AboveCylinderTopUntouched ==
  /\ sample.kind = "collision"
  /\ sample.done
  /\ sample.cylinderHeight > 0
  /\ sample.newPos[2] > sample.spherePosition[2]
  /\ VLength(VSub(sample.newPos, sample.spherePosition)) < sample.sphereRadius
  /\ sample.collisionForce = ZeroVec

\* a and b differ by at most tol
Near(a, b, tol) == a - b <= tol /\ b - a <= tol

\* the rounding of a length computed in the fixed-point arithmetic of
\* this model, in length units (1/2000 m)
LENGTH_ROUNDING == 3

\* C17: in pure-sphere mode a tentative position at distance d from the
\* probe centre with 0 < d < radius is corrected outward along
\* (tentative - probe) by radius - d, so that the corrected position lies
\* on the sphere surface (both up to the rounding of the arithmetic, and
\* exactly where d is a whole number of length units on an axis); for
\* d >= radius the correction is zero.
PureSphereResponse ==
  (sample.kind = "collision" /\ sample.done /\ sample.cylinderHeight <= 0)
    => LET d == VLength(sample.offset)
           r == sample.sphereRadius
           correction == sample.collisionForce
           corrected == VAdd(sample.offset, correction)
           onAxis == Cardinality({k \in 1..3 : sample.offset[k] # 0}) = 1
       IN /\ (0 < d /\ d < r)
               => /\ Near(VLength(correction), r - d, LENGTH_ROUNDING)
                  /\ Near(VLength(corrected), r, LENGTH_ROUNDING)
                  /\ \A k \in 1..3 : correction[k] * sample.offset[k] >= 0
                  /\ onAxis => (VLength(correction) = r - d /\ VLength(corrected) = r)
          /\ d >= r => correction = ZeroVec

\* a position inside the sphere, off the axes, has been moved onto the
\* surface
PushedOntoSphere ==
  /\ sample.kind = "collision"
  /\ sample.done
  /\ sample.cylinderHeight <= 0
  /\ sample.offset = <<60, 80, 0>>
  /\ sample.collisionForce = <<84, 112, 0>>

\* C18: with the collision multiplier 0 the accumulator a vertex task
\* stores is the same for every probe position, radius and height: the
\* accumulator before the collision code; with the multiplier 1 it is
\* that accumulator plus the correction, once.
CollisionEnableMultiplier ==
  (sample.kind = "probe" /\ sample.done)
    => /\ sample.sphere = 0 => sample.vertexForce = Finite(sample.force)
       /\ sample.sphere = 1
            => sample.vertexForce
                 = Finite(VAdd(sample.force,
                               collisionForce(VAdd(sample.position, sample.force),
                                              sample.spherePosition,
                                              sample.sphereRadius,
                                              sample.cylinderHeight)))

\* some spring has vertices a and b as its endpoints
Joined(a, b) ==
  \E i \in 1..Len(verletSprings) :
    {verletSprings[i].vertex0, verletSprings[i].vertex1} = {a, b}

\* C19: within each layer there are structural springs between
\* grid-adjacent vertices, shear springs between diagonal vertices and
\* bending springs between vertices two grid steps apart (x to x + 2, y to
\* y + 2), and there are Z-springs between the layers.
SpringTypesBuilt ==
  /\ \A columns \in {verletVertexColumns, verletVertexColumnsBottom} :
       \A x \in 1..Len(columns) : \A y \in 1..Len(columns[x]) :
         /\ x + 1 <= Len(columns) => Joined(columns[x][y], columns[x + 1][y])
         /\ y + 1 <= Len(columns[x]) => Joined(columns[x][y], columns[x][y + 1])
         /\ (x + 1 <= Len(columns) /\ y + 1 <= Len(columns[x]))
              => /\ Joined(columns[x][y], columns[x + 1][y + 1])
                 /\ Joined(columns[x][y + 1], columns[x + 1][y])
         /\ x + 2 <= Len(columns) => Joined(columns[x][y], columns[x + 2][y])
         /\ y + 2 <= Len(columns[x]) => Joined(columns[x][y], columns[x][y + 2])
  /\ \A x \in 1..Len(verletVertexColumns) : \A y \in 1..Len(verletVertexColumns[x]) :
       Joined(verletVertexColumns[x][y], verletVertexColumnsBottom[x][y])

\* the square of the distance between points a and b
DistanceSquared(a, b) ==
  LET d == VSub(a, b) IN d[1] * d[1] + d[2] * d[2] + d[3] * d[3]

\* the sample is a spring with a positive stiffness whose Hooke
\* displacement, half the stiffness times the difference between length
\* and rest length, is not below the rounding of the arithmetic
pullResolved ==
  LET dist == VLength(sample.offset)
      stretch == IF dist >= sample.restLength THEN dist - sample.restLength
                                              ELSE sample.restLength - dist
  IN stretch * sample.stored * sample.multiplier >= 200 * LENGTH_ROUNDING

\* C20 as stated: one tick moves the vertex strictly toward the fixed
\* endpoint when the spring is longer than its rest length and strictly
\* away from it when the spring is shorter.
RestoringDirectionAlways ==
  (sample.kind = "pull" /\ sample.done /\ pullResolved)
    => LET dist == VLength(sample.offset)
           before == DistanceSquared(VAdd(sample.fixedPosition, sample.offset),
                                     sample.fixedPosition)
           after == DistanceSquared(sample.vertexPosition, sample.fixedPosition)
       IN /\ dist > sample.restLength => after < before
          /\ dist < sample.restLength => after > before

\* C20: one tick moves the vertex strictly toward the fixed endpoint when
\* the spring is longer than its rest length and at most
\* SPRING_BREAK_THRESHOLD times as long, and strictly away from it when the
\* spring is shorter than its rest length and the two endpoints are apart;
\* beyond the threshold the spring breaks, and then, as on the fixed
\* endpoint, the vertex stays where it is.
RestoringDirection ==
  (sample.kind = "pull" /\ sample.done /\ pullResolved)
    => LET dist == VLength(sample.offset)
           before == DistanceSquared(VAdd(sample.fixedPosition, sample.offset),
                                     sample.fixedPosition)
           after == DistanceSquared(sample.vertexPosition, sample.fixedPosition)
       IN /\ (dist > sample.restLength
                /\ dist * 10 <= SPRING_BREAK_THRESHOLD * sample.restLength)
               => (after < before /\ ~sample.broke)
          /\ (0 < dist /\ dist < sample.restLength)
               => (after > before /\ ~sample.broke)
          /\ (dist * 10 > SPRING_BREAK_THRESHOLD * sample.restLength \/ dist = 0)
               => after = before

\* the second endpoint of a spring stretched to 1.9 times its rest length
\* has moved toward the fixed first endpoint
PulledBack ==
  /\ sample.kind = "pull"
  /\ sample.done
  /\ sample.movableIs = "vertex1"
  /\ sample.offset = <<-2850, 0, 0>>
  /\ sample.restLength = 1500
  /\ sample.multiplier = 10
  /\ sample.vertexForce[1] > 0
  /\ ~sample.broke

\* C13: between frames the accumulated time is at least 0 and less than
\* one step, it is never negative, ticks are only ever complete (as many
\* vertex dispatches as spring dispatches), and every iteration of the
\* catch-up loop takes exactly one step off and runs exactly one tick.
FixedTimestepAccumulator ==
  /\ [](/\ timeSinceLastStep >= 0
        /\ stage = "idle" => timeSinceLastStep < timePerStep
        /\ springDispatches = vertexDispatches)
  /\ [][frameTicks' = frameTicks + 1
          => /\ timeSinceLastStep' = timeSinceLastStep - timePerStep
             /\ springDispatches' = springDispatches + 1
             /\ vertexDispatches' = vertexDispatches + 1]_vars

\* a second frame has ended after running ticks, with a remainder carried
\* over
FrameEndedWithRemainder ==
  /\ stage = "idle"
  /\ frames >= 2
  /\ frameTicks >= 1
  /\ timeSinceLastStep > 0

\* C14: a frame never runs more than MAX_DELTA_TIME / timePerStep = 6
\* ticks, whatever the clock returned, and its loop cannot go on for ever:
\* the time accumulated by a frame is below 7 steps, and every iteration
\* leaves strictly less of it, never less than 0.
BoundedCatchUp ==
  /\ [](/\ frameTicks <= MAX_DELTA_TIME \div timePerStep
        /\ timeSinceLastStep < MAX_DELTA_TIME + timePerStep)
  /\ [][(stage = "frame" /\ stage' = "frame")
          => (timeSinceLastStep' < timeSinceLastStep /\ timeSinceLastStep' >= 0)]_vars

\* a frame that was handed a delta above the cap, on top of a remainder,
\* has ended after 6 ticks
StallCaughtUp ==
  /\ stage = "idle"
  /\ clockDelta > MAX_DELTA_TIME
  /\ frameTicks = MAX_DELTA_TIME \div timePerStep
  /\ timeSinceLastStep > 0

\* C21: in every interleaving of input events and render frames,
\* resetSimulationBuffers never runs between the spring dispatch and the
\* vertex dispatch of a tick, nor between two ticks of one frame: it runs
\* only while no render() call is in progress.
ResetSerialized ==
  /\ [](~resetInFrame)
  /\ [][(resetStreak' # resetStreak /\ resetStreak' > 0)
          => (stage = "idle" /\ stage' = "idle"
              /\ springDispatches = vertexDispatches)]_vars

\* a reset has run between two frames, after a frame that ran a tick
ResetBetweenFrames ==
  /\ resetStreak = 1
  /\ frames >= 1
  /\ frames < MaxFrames
  /\ vertexDispatches >= 1
  /\ stage = "idle"

\* C30: orbit controls are disabled only during an active press: disabled
\* controls imply that the mouse or the pen is pressed, and with both press
\* flags false the controls are enabled and depth and pressure are 0, over
\* any sequence of mouse, pointer, mode-change and reset events.
ControlsDisabledOnlyWhilePressed ==
  /\ ~controlsEnabled => (mouseState.isPressed \/ penState.isPressed)
  /\ (~mouseState.isPressed /\ ~penState.isPressed)
       => (controlsEnabled /\ mouseState.depth = 0 /\ penState.pressure = 0)

\* C22: topology validity. The vertex ids are exactly 0..vertexCount-1 and
\* each equals the vertex's array index, the spring ids likewise; both
\* endpoints of every spring are valid vertex ids, no spring joins a vertex
\* to itself, and no two springs join the same unordered pair of vertices.
TopologyValid ==
  /\ \A i \in 1..Len(verletVertices) : verletVertices[i].id = i - 1
  /\ \A i \in 1..Len(verletSprings) :
       /\ verletSprings[i].id = i - 1
       /\ verletSprings[i].vertex0 \in 0..(getVertexCount - 1)
       /\ verletSprings[i].vertex1 \in 0..(getVertexCount - 1)
       /\ verletSprings[i].vertex0 # verletSprings[i].vertex1
  /\ \A i, j \in 1..Len(verletSprings) :
       i # j => {verletSprings[i].vertex0, verletSprings[i].vertex1}
                  # {verletSprings[j].vertex0, verletSprings[j].vertex1}

\* the cloth was rebuilt: it has vertices and springs of both kinds, and a
\* tick has run on it
RebuiltTopology ==
  /\ builds >= 2 /\ vertexDispatches >= 1
  /\ getVertexCount = 2 * GridSize
  /\ \E i, j \in 1..Len(verletSprings) :
       verletSprings[i].isZSpring /\ ~verletSprings[j].isZSpring

\* the invocation that ran in a step that took one invocation off pending
taskRun(pending, pendingAfter) == CHOOSE i \in pending \ pendingAfter : TRUE

\* C23: stage write sets. The spring task for spring s writes only
\* springForce[s], stiffness[s] and the broken indicators of the two
\* endpoints of s, and leaves all positions and accumulators unchanged; the
\* vertex task for vertex v writes only position[v] and accumulator[v].
StageWriteSets ==
  [][/\ (springPending' # springPending /\ springPending' \subseteq springPending)
        => LET s == taskRun(springPending, springPending')
               ends == {springVertexIdBuffer[s][1], springVertexIdBuffer[s][2]}
           IN /\ vertexPositionBuffer' = vertexPositionBuffer
              /\ vertexForceBuffer' = vertexForceBuffer
              /\ \A j \in DOMAIN springForceBuffer \ {s} :
                   springForceBuffer'[j] = springForceBuffer[j]
              /\ \A j \in DOMAIN springStiffnessBuffer \ {s} :
                   springStiffnessBuffer'[j] = springStiffnessBuffer[j]
              /\ \A v \in DOMAIN vertexBrokenBuffer \ ends :
                   vertexBrokenBuffer'[v] = vertexBrokenBuffer[v]
     /\ (vertexPending' # vertexPending /\ vertexPending' \subseteq vertexPending)
        => LET v == taskRun(vertexPending, vertexPending')
           IN /\ springForceBuffer' = springForceBuffer
              /\ springStiffnessBuffer' = springStiffnessBuffer
              /\ vertexBrokenBuffer' = vertexBrokenBuffer
              /\ \A w \in DOMAIN vertexPositionBuffer \ {v} :
                   vertexPositionBuffer'[w] = vertexPositionBuffer[w]
              /\ \A w \in DOMAIN vertexForceBuffer \ {v} :
                   vertexForceBuffer'[w] = vertexForceBuffer[w]]_vars

\* part of the vertex invocations of a tick have run, after spring
\* invocations of which one broke its spring and others stored a force:
\* a vertex has moved, and a vertex away from the broken spring is unmarked
TasksHaveWritten ==
  /\ stage = "vertex" /\ vertexPending # {} /\ vertexPending # VertexTasks
  /\ \E s \in DOMAIN springStiffnessBuffer : springStiffnessBuffer[s] = 0
  /\ \E s \in DOMAIN springForceBuffer : springForceBuffer[s] # ZeroVec
  /\ \E v \in DOMAIN vertexBrokenBuffer : vertexBrokenBuffer[v] = 0
  /\ \E v \in VertexTasks \ vertexPending :
       vertexPositionBuffer[v] # InitialVertexBuffers.vertexPositionBuffer[v]

RECURSIVE signedSpringSum(_, _, _)
\* the sum over the entries ptrStart .. ptrEnd - 1 of the spring list of
\* +F_s where v is the first endpoint of spring s and -F_s where it is not
signedSpringSum(v, ptrStart, ptrEnd) ==
  IF ptrEnd <= ptrStart THEN ZeroVec
  ELSE LET s == springListBuffer[ptrEnd - 1]
           F == springForceBuffer[s]
       IN VAdd(signedSpringSum(v, ptrStart, ptrEnd - 1),
               IF springVertexIdBuffer[s][1] = v THEN F ELSE VNeg(F))

\* damping * acc + signed spring sum + gravity for vertex v in this state
dampedSprungFalling(v) ==
  LET params == vertexParamsBuffer[v]
      sum == signedSpringSum(v, params[3], params[3] + params[2])
      damped == VScale(vertexForceBuffer[v], uniforms.dampening, 100)
  IN VAdd(VAdd(damped, sum), <<0, -(GRAVITY_TOTAL \div getVertexCount), 0>>)

\* C24: vertex update order. For every non-fixed vertex v one vertex task
\* computes acc' = damping * acc + (sum over v's adjacency slice of +F_s
\* if v is the spring's first endpoint, else -F_s) + gravity, adds
\* enable * collision(position + acc') to it, stores the result as the new
\* accumulator and sets position := position + accumulator; between ticks
\* the accumulator is kept (decayed by the next task, never reset to zero).
VertexUpdateOrder ==
  [][/\ (vertexPending' # vertexPending /\ vertexPending' \subseteq vertexPending)
        => LET v == taskRun(vertexPending, vertexPending')
               acc == dampedSprungFalling(v)
               collision == collisionForce(VAdd(vertexPositionBuffer[v], acc),
                                           uniforms.spherePosition,
                                           uniforms.sphereRadius,
                                           uniforms.cylinderHeight)
               stored == VAdd(acc, VScale(collision, uniforms.sphere, 1))
           IN vertexParamsBuffer[v][1] = 0
                => /\ vertexForceBuffer'[v] = stored
                   /\ vertexPositionBuffer'[v] = VAdd(vertexPositionBuffer[v], stored)
     /\ (vertexPending' = vertexPending \/ ~(vertexPending' \subseteq vertexPending))
        => vertexForceBuffer' = vertexForceBuffer]_vars

\* in the second tick a vertex task has run for a movable vertex whose
\* accumulator was not zero when the dispatch began, under an enabled probe
\* that reaches the vertex
SecondTickVertexUpdated ==
  /\ stage = "vertex" /\ vertexDispatches = 2 /\ uniforms.sphere = 1
  /\ \E v \in VertexTasks \ vertexPending :
       /\ vertexParamsBuffer[v][1] = 0
       /\ dispatchSnapshot.force[v] # ZeroVec
       /\ vertexForceBuffer[v] # dispatchSnapshot.force[v]
       /\ VLength(VSub(vertexPositionBuffer[v], uniforms.spherePosition))
            <= uniforms.sphereRadius + LENGTH_ROUNDING

\* C25: topology is immutable after construction. No tick and no reset
\* changes a spring's endpoint pair, rest length or type flag, a vertex's
\* isFixed flag, a (springCount, springPointer) pair or a spring-list entry
\* of the adjacency table.
TopologyImmutable ==
  [][Topology' = Topology]_vars

\* the cloth was reset after ticks that moved vertices and broke springs,
\* and a tick has run since
TickedResetTicked ==
  /\ repaired # {} /\ resetStreak = 0 /\ stage = "idle"
  /\ vertexDispatches >= 2
  /\ \E v \in VertexIds : vertexForceBuffer[v] # ZeroVec

\* what the physics stores: positions, accumulators, spring forces and
\* stiffness
physicalState(B) == <<B.position, B.force, B.springForce, B.stiffness>>

\* the broken indicators of a second run at the same point: none set, all
\* set, and each one the opposite of this run's
otherIndicators ==
  { [v \in DOMAIN vertexBrokenBuffer |-> 0],
    [v \in DOMAIN vertexBrokenBuffer |-> 1],
    [v \in DOMAIN vertexBrokenBuffer |-> 1 - vertexBrokenBuffer[v]] }

\* C26: the broken indicator is not consumed by physics. Two runs that
\* differ only in the per-vertex broken indicators and receive the same
\* control inputs have identical positions, accumulators, spring forces and
\* stiffness after every dispatch of every tick.
BrokenNotConsumed ==
  [][\A indicators \in otherIndicators :
       LET other == [Buffers EXCEPT !.broken = indicators]
       IN /\ springDispatches' # springDispatches
               => physicalState(springStage(other)) = physicalState(Buffers')
          /\ vertexDispatches' # vertexDispatches
               => physicalState(vertexStage(other)) = physicalState(Buffers')]_vars

\* a tick has run from a state in which some indicators were set and
\* others not, and it stored spring forces and moved vertices
TickFromMarkedCloth ==
  /\ stage = "idle" /\ vertexDispatches >= 2
  /\ \E v, w \in VertexIds :
       dispatchSnapshot.broken[v] = 1 /\ dispatchSnapshot.broken[w] = 0
  /\ \E s \in DOMAIN springForceBuffer : springForceBuffer[s] # ZeroVec
  /\ vertexPositionBuffer # dispatchSnapshot.position

\* the values the 'Stiffness' slider of the settings panel can hold, in
\* tenths: 0.1 to 0.5
StiffnessValues == 1..5

\* C27: the 'Stiffness' control takes effect. With all other inputs equal,
\* a higher value of the stiffness uniform yields a larger spring force
\* magnitude for every stretched intact spring.
StiffnessControlTakesEffect ==
  [][springDispatches' # springDispatches
       => \A s \in 0..(getSpringCount - 1) : \A higher \in StiffnessValues :
            LET ends == springVertexIdBuffer[s]
                dist == distanceTo(vertexPositionBuffer[ends[1]],
                                   vertexPositionBuffer[ends[2]])
                stiffer == [uniforms EXCEPT !.stiffness = higher]
                F == springTaskWith(stiffer, Buffers, s).springForce[s]
            IN (/\ higher > uniforms.stiffness
                /\ springStiffnessBuffer'[s] > 0
                /\ dist > springRestLengthBuffer[s]
                /\ springForceBuffer'[s] # ZeroVec)
                 => DistanceSquared(F, ZeroVec)
                      > DistanceSquared(springForceBuffer'[s], ZeroVec)]_vars

\* C28: a broken spring exerts no force. From the tick in which it breaks
\* until a reset, the force stored for a spring with stored stiffness 0 is
\* the zero vector, and the spring adds nothing to the accumulator of
\* either endpoint.
BrokenSpringForceless ==
  \A s \in SpringIds :
    springStiffnessBuffer[s] = 0
      => /\ springForceBuffer[s] = ZeroVec
         /\ \A k \in 1..2 : contributionOf(s, springVertexIdBuffer[s][k]) = ZeroVec

\* the length of spring s in the positions of B
lengthIn(B, s) ==
  distanceTo(B.position[springVertexIdBuffer[s][1]],
             B.position[springVertexIdBuffer[s][2]])

\* the last spring dispatch broke a spring whose Hooke force before the
\* break was not zero, and found another already broken by an earlier
\* tick and still off its rest length
BrokeNowAndEarlier ==
  /\ stage = "spring"
  /\ \E s, t \in SpringIds :
       /\ dispatchSnapshot.stiffness[s] > 0 /\ springStiffnessBuffer[s] = 0
       /\ uniforms.inPlaneStiffness > 0 /\ springTypeBuffer[s] = 0
       /\ dispatchSnapshot.stiffness[t] = 0 /\ springStiffnessBuffer[t] = 0
       /\ lengthIn(Buffers, t) # springRestLengthBuffer[t]

\* C29: broken-indicator consistency. In every state reachable by ticks
\* and resets a vertex's broken indicator is 1 if and only if at least one
\* spring incident to it has stored stiffness 0; a set indicator stays set
\* until a reset, and a reset clears the indicators and repairs the springs
\* together.
BrokenIndicatorConsistent ==
  /\ [](\A v \in VertexIds :
          vertexBrokenBuffer[v] = 1
            <=> \E s \in incidentSprings(v) : springStiffnessBuffer[s] = 0)
  /\ [][IF IsResetStep
        THEN /\ \A v \in VertexIds : vertexBrokenBuffer'[v] = 0
             /\ \A s \in SpringIds : springStiffnessBuffer'[s] > 0
        ELSE \A v \in VertexIds :
               vertexBrokenBuffer[v] = 1 => vertexBrokenBuffer'[v] = 1]_vars

\* the cloth is torn: some vertices are marked and others are not, and
\* the marks and the broken springs have lasted through a further tick
MarksLastedATick ==
  /\ stage = "idle" /\ resetStreak = 0
  /\ \E v, w \in VertexIds :
       /\ vertexBrokenBuffer[v] = 1 /\ dispatchSnapshot.broken[v] = 1
       /\ vertexBrokenBuffer[w] = 0
  /\ \E s \in SpringIds :
       springStiffnessBuffer[s] = 0 /\ dispatchSnapshot.stiffness[s] = 0

====
